---- MODULE Spec2Model ----
(***************************************************************************)
(* Verification model of the convection particle simulator (convec).       *)
(*                                                                         *)
(* The program state is the React state of App (params, isPlaying), the    *)
(* FluidSystem refs and memoised typed arrays (simState, positions,        *)
(* velocities, temperatures, state, colors, meta) and the inputs of the    *)
(* latest frame callback.  JavaScript numbers are modelled as fixed-point  *)
(* integers on a grid of 1/One, extended with NaN, +Infinity and           *)
(* -Infinity; every arithmetic operator follows IEEE-754 for the special   *)
(* values and rounds to the nearest grid point otherwise.                  *)
(***************************************************************************)
EXTENDS Integers, Sequences, FiniteSets, TLC

(***************************************************************************)
(* Numbers                                                                 *)
(***************************************************************************)
One == 100 * 100
PInf == 2 * 1000 * 1000 * 1000
NInf == -PInf
NaN == PInf + 1

isNaN(a) == a = NaN
isFinite(a) == a # NaN /\ a # PInf /\ a # NInf

Abs(a) == IF a < 0 THEN -a ELSE a
Sgn(a) == IF a < 0 THEN -1 ELSE IF a > 0 THEN 1 ELSE 0

\* A finite result must stay below the grid's range; anything else stops the check.
Checked(v) == CASE Abs(v) < PInf -> v

\* n / d for naturals, rounded to nearest (ties up).
RoundDiv(n, d) == (n + d \div 2) \div d

\* a * b / One for naturals without leaving 32 bits.
MulDivNat(a, b) ==
  LET a1 == a \div One
      a0 == a % One
      b1 == b \div One
      b0 == b % One
  IN  a1 * b1 * One + a1 * b0 + a0 * b1 + RoundDiv(a0 * b0, One)

\* a * One / b for naturals, b > 0, by long division in base 100.
DivMulNat(a, b) ==
  LET q0 == a \div b
      t1 == (a % b) * 100
      d1 == t1 \div b
      t2 == (t1 % b) * 100
  IN  q0 * One + d1 * 100 + RoundDiv(t2, b)

FNeg(a) == IF isNaN(a) THEN NaN ELSE -a

FAdd(a, b) ==
  IF isNaN(a) \/ isNaN(b) THEN NaN
  ELSE IF ~isFinite(a) THEN (IF ~isFinite(b) /\ b # a THEN NaN ELSE a)
  ELSE IF ~isFinite(b) THEN b
  ELSE Checked(a + b)

FSub(a, b) == FAdd(a, FNeg(b))

FMul(a, b) ==
  IF isNaN(a) \/ isNaN(b) THEN NaN
  ELSE IF ~isFinite(a) \/ ~isFinite(b)
       THEN (IF a = 0 \/ b = 0 THEN NaN
             ELSE IF Sgn(a) * Sgn(b) > 0 THEN PInf ELSE NInf)
  ELSE Checked(Sgn(a) * Sgn(b) * MulDivNat(Abs(a), Abs(b)))

FDiv(a, b) ==
  IF isNaN(a) \/ isNaN(b) THEN NaN
  ELSE IF ~isFinite(a)
       THEN (IF ~isFinite(b) THEN NaN
             ELSE IF Sgn(a) * (IF b < 0 THEN -1 ELSE 1) > 0 THEN PInf ELSE NInf)
  ELSE IF ~isFinite(b) THEN 0
  ELSE IF b = 0 THEN (IF a = 0 THEN NaN ELSE IF a > 0 THEN PInf ELSE NInf)
  ELSE Checked(Sgn(a) * Sgn(b) * DivMulNat(Abs(a), Abs(b)))

\* JavaScript comparisons: false as soon as one side is NaN.
FLt(a, b) == ~isNaN(a) /\ ~isNaN(b) /\ a < b
FGt(a, b) == FLt(b, a)
FLe(a, b) == ~isNaN(a) /\ ~isNaN(b) /\ a <= b

\* Math.max and Math.min.
FMax(a, b) == IF isNaN(a) \/ isNaN(b) THEN NaN ELSE IF a >= b THEN a ELSE b
FMin(a, b) == IF isNaN(a) \/ isNaN(b) THEN NaN ELSE IF a <= b THEN a ELSE b

\* Integer square root of a natural, rounded to nearest.
RECURSIVE SqrtSearch(_, _, _)
SqrtSearch(n, lo, hi) ==
  IF lo >= hi THEN lo
  ELSE LET mid == (lo + hi + 1) \div 2
       IN  IF mid * mid <= n THEN SqrtSearch(n, mid, hi) ELSE SqrtSearch(n, lo, mid - 1)

ISqrt(n) ==
  LET s == SqrtSearch(n, 0, 46340)
  IN  IF n - s * s > s THEN s + 1 ELSE s

\* Math.sqrt of a grid value.
FSqrt(a) ==
  IF isNaN(a) \/ a < 0 THEN NaN
  ELSE IF a = PInf THEN PInf
  ELSE ISqrt(a * One)

\* Math.sqrt(x*x + z*z).
Hypot(x, z) ==
  IF isNaN(x) \/ isNaN(z) THEN NaN
  ELSE IF ~isFinite(x) \/ ~isFinite(z) THEN PInf
  ELSE ISqrt(x * x + z * z)

\* THREE.MathUtils.lerp(x, y, t): x moved the fraction t of the way to y.
Lerp(x, y, t) == FAdd(x, FMul(t, FSub(y, x)))


(***************************************************************************)
(* Units.  Lengths (m), velocities (m/s), temperatures (K), times (s),     *)
(* forces, gravity, density and every dimensionless factor live on the     *)
(* grid of 1/One.  expansionCoefficient and viscosityDynamic are held in   *)
(* units of 10^-6 and thermalDiffusivity in units of 10^-9, the sizes the  *)
(* sliders of Sidebar.tsx give them.                                       *)
(***************************************************************************)
K(n) == n * One
FromMicro(v) == FMul(v, 100)

\* Math.random() returns a value in [0, 1).
RandomLow == 0
RandomMid == One \div 2
RandomHigh == One - 1

\* cos and sin of an angle Math.random() * 2 * Math.PI, as a pair.
Directions ==
  { <<One, 0>>, <<0, One>>, <<-One, 0>>, <<0, -One>>, <<6000, 8000>>, <<-8000, -6000>> }

(***************************************************************************)
(* Bounds of the model                                                     *)
(***************************************************************************)
MaxParticles == 2
MaxTicks == 2
MaxEdits == 2

(***************************************************************************)
(* constants.ts                                                            *)
(***************************************************************************)
DEFAULT_PARAMS ==
  [ containerRadius |-> 1000,
    containerHeight |-> 2000,
    tempSurface |-> K(350),
    tempFluidInitial |-> K(293),
    boilingPoint |-> 3731500,
    density |-> K(998),
    expansionCoefficient |-> 207,
    viscosityDynamic |-> 1002,
    thermalDiffusivity |-> 143,
    gravity |-> 98100,
    particleCount |-> MaxParticles,
    densityEffect |-> One ]

(***************************************************************************)
(* App.tsx: computed.rayleigh, compared exactly.  Natural numbers of any   *)
(* size are sequences of decimal digits, least significant first.          *)
(***************************************************************************)
RECURSIVE BigCarry(_)
BigCarry(c) == IF c = 0 THEN <<>> ELSE <<c % 10>> \o BigCarry(c \div 10)

RECURSIVE BigTimesFrom(_, _, _, _)
BigTimesFrom(b, k, i, carry) ==
  IF i > Len(b) THEN BigCarry(carry)
  ELSE LET t == b[i] * k + carry
       IN  <<t % 10>> \o BigTimesFrom(b, k, i + 1, t \div 10)

BigTimes(b, k) == IF k = 0 THEN <<>> ELSE BigTimesFrom(b, k, 1, 0)

RECURSIVE BigGtFrom(_, _, _)
BigGtFrom(a, b, i) ==
  IF i = 0 THEN FALSE
  ELSE IF a[i] # b[i] THEN a[i] > b[i]
  ELSE BigGtFrom(a, b, i - 1)

BigGt(a, b) == IF Len(a) # Len(b) THEN Len(a) > Len(b) ELSE BigGtFrom(a, b, Len(a))

BigShift(b, n) == IF b = <<>> THEN b ELSE [i \in 1..n |-> 0] \o b

\* deltaT = Math.max(0, tempSurface - tempFluidInitial)
DeltaT(p) == FMax(0, FSub(p.tempSurface, p.tempFluidInitial))

\* gravity * expansionCoefficient * deltaT * containerHeight^3 * density, in raw units
\* of 10^-30.
RayleighNumerator(p) ==
  BigTimes(BigTimes(BigTimes(BigTimes(BigTimes(BigTimes(BigTimes(<<1>>,
    p.gravity), p.expansionCoefficient), DeltaT(p)),
    p.containerHeight), p.containerHeight), p.containerHeight), p.density)

\* limit * viscosityDynamic * thermalDiffusivity, in the same raw units.
RayleighDenominator(p, limit) ==
  BigShift(BigTimes(BigTimes(BigTimes(<<1>>, limit), p.viscosityDynamic),
    p.thermalDiffusivity), 15)

RayleighFields(p) ==
  << p.gravity, p.expansionCoefficient, p.tempSurface, p.tempFluidInitial,
     p.containerHeight, p.density, p.viscosityDynamic, p.thermalDiffusivity >>

\* rayleigh > limit, for the rayleigh of App.tsx lines 28-39.
RayleighExceeds(p, limit) ==
  LET f == RayleighFields(p)
      zeroTop == p.gravity = 0 \/ DeltaT(p) = 0 \/ p.containerHeight = 0
  IN  CASE \E k \in 1..Len(f) : isNaN(f[k]) -> FALSE
        [] \A k \in 1..Len(f) : isFinite(f[k]) /\ f[k] >= 0 ->
             IF p.density = 0 THEN FALSE
             ELSE IF p.viscosityDynamic = 0 \/ p.thermalDiffusivity = 0 THEN ~zeroTop
             ELSE BigGt(RayleighNumerator(p), RayleighDenominator(p, limit))

\* const computed = useMemo(() => { ... }, [params]): of the derived quantities the
\* model keeps what the particle system reads, the side of 1000 rayleigh is on.
Computed(p) == [ rayleighAbove1000 |-> RayleighExceeds(p, 1000) ]

(***************************************************************************)
(* FluidParticles.tsx: constants                                           *)
(***************************************************************************)
_cGas == << 9500, 9500, One >>
_cGlow == << One, One, One >>
_cBlue == << 1000, 3000, One >>
_cCyan == << 2000, 8000, 9000 >>
_cGreen == << 2000, 9000, 3000 >>
_cYellow == << 9000, 9000, 2000 >>
_cRed == << One, 2000, 1000 >>
lerpRate == 500
MAX_VELOCITY == 10 * One

VARIABLES
  params,        \* App: the configuration (useState)
  computed,      \* App: the quantities derived from params (useMemo)
  isPlaying,     \* App: play / pause (useState)
  showHeatMap,   \* App: display mode (useState)
  simState,      \* FluidSystem: smoothed parameters and running average (useRef)
  positions,     \* FluidSystem: per particle <<x, y, z>>
  velocities,    \* FluidSystem: per particle <<vx, vy, vz>>
  temperatures,  \* FluidSystem: per particle temperature
  state,         \* FluidSystem: per particle phase, 0 = liquid, 1 = gas
  colors,        \* FluidSystem: per particle <<r, g, b>>
  meta,          \* FluidSystem: per particle variance
  frame,         \* what ran last: a frame callback with its inputs and what it started
                 \* from, a mount or edit that asks for new arrays, or something else
  ticks,         \* frames played so far
  edits,         \* user actions so far
  downloads,     \* the files handleSaveSimulation has produced, each with the
                 \* configuration it was produced from
  timers,        \* pending setTimeout(() => setIsPlaying(true), 100) callbacks
  load           \* the latest file load: the file, what it started from, its alert

\* What the browser holds for App besides the React state.
shell == << downloads, timers, load >>

vars == << params, computed, isPlaying, showHeatMap, simState, positions, velocities,
           temperatures, state, colors, meta, frame, ticks, edits, downloads, timers, load >>


(***************************************************************************)
(* FluidParticles.tsx lines 26-73: simState and the particle arrays        *)
(***************************************************************************)
\* useRef(...): the smoothed state starts at the configuration of the mount.
NewSimState(p) ==
  [ tempSurface |-> p.tempSurface,
    tempFluidInitial |-> p.tempFluidInitial,
    gravity |-> p.gravity,
    viscosity |-> p.viscosityDynamic,
    expansion |-> p.expansionCoefficient,
    diffusivity |-> p.thermalDiffusivity,
    density |-> p.density,
    avgSystemTemp |-> p.tempFluidInitial ]

\* A radius drawn over the whole of containerRadius, for comparison.
InitialRadiusToWall(p, u) == FMax(10, FMul(FSqrt(u), p.containerRadius))

\* const r = Math.max(0.001, Math.sqrt(Math.random()) * params.containerRadius * 0.9)
InitialRadius(p, u) == FMax(10, FMul(FMul(FSqrt(u), p.containerRadius), 9000))

\* One particle of the useMemo loop; d holds its four Math.random() draws.
InitialPosition(p, d) ==
  LET r == InitialRadius(p, d.u)
  IN  << FMul(r, d.dir[1]),
         FMul(FSub(d.v, One \div 2), p.containerHeight),
         FMul(r, d.dir[2]) >>

InitialVariance(d) == FAdd(8000, FMul(d.w, 4000))

\* The arrays useMemo returns, one entry per particle.
NewArrays(p, ds) ==
  [ positions |-> [i \in 1..p.particleCount |-> InitialPosition(p, ds[i])],
    velocities |-> [i \in 1..p.particleCount |-> << 0, 0, 0 >>],
    temperatures |-> [i \in 1..p.particleCount |-> p.tempFluidInitial],
    colors |-> [i \in 1..p.particleCount |-> << 0, 0, 0 >>],
    state |-> [i \in 1..p.particleCount |-> 0],
    meta |-> [i \in 1..p.particleCount |-> InitialVariance(ds[i])] ]

(***************************************************************************)
(* FluidParticles.tsx lines 93-135: the per-frame scalars                  *)
(***************************************************************************)
\* An interpolation at a rate above 1, for comparison.
SmoothTooFar(s, p) ==
  [ tempSurface |-> Lerp(s.tempSurface, p.tempSurface, 15000),
    tempFluidInitial |-> Lerp(s.tempFluidInitial, p.tempFluidInitial, 15000),
    gravity |-> Lerp(s.gravity, p.gravity, 15000),
    viscosity |-> Lerp(s.viscosity, p.viscosityDynamic, 15000),
    expansion |-> Lerp(s.expansion, p.expansionCoefficient, 15000),
    diffusivity |-> Lerp(s.diffusivity, p.thermalDiffusivity, 15000),
    density |-> Lerp(s.density, p.density, 15000),
    avgSystemTemp |-> s.avgSystemTemp ]

\* A smoothing that leaves a field where it is when its target is NaN, for comparison.
LerpUnlessNaN(x, y, t) == IF isNaN(y) THEN x ELSE Lerp(x, y, t)

SmoothSkippingNaN(s, p) ==
  [ tempSurface |-> LerpUnlessNaN(s.tempSurface, p.tempSurface, lerpRate),
    tempFluidInitial |-> LerpUnlessNaN(s.tempFluidInitial, p.tempFluidInitial, lerpRate),
    gravity |-> LerpUnlessNaN(s.gravity, p.gravity, lerpRate),
    viscosity |-> LerpUnlessNaN(s.viscosity, p.viscosityDynamic, lerpRate),
    expansion |-> LerpUnlessNaN(s.expansion, p.expansionCoefficient, lerpRate),
    diffusivity |-> LerpUnlessNaN(s.diffusivity, p.thermalDiffusivity, lerpRate),
    density |-> LerpUnlessNaN(s.density, p.density, lerpRate),
    avgSystemTemp |-> s.avgSystemTemp ]

\* 1. Smooth Parameter Interpolation
Smooth(s, p) ==
  [ tempSurface |-> Lerp(s.tempSurface, p.tempSurface, lerpRate),
    tempFluidInitial |-> Lerp(s.tempFluidInitial, p.tempFluidInitial, lerpRate),
    gravity |-> Lerp(s.gravity, p.gravity, lerpRate),
    viscosity |-> Lerp(s.viscosity, p.viscosityDynamic, lerpRate),
    expansion |-> Lerp(s.expansion, p.expansionCoefficient, lerpRate),
    diffusivity |-> Lerp(s.diffusivity, p.thermalDiffusivity, lerpRate),
    density |-> Lerp(s.density, p.density, lerpRate),
    avgSystemTemp |-> s.avgSystemTemp ]

\* for (k = 0; k < count; k++) sumT += temperatures[k]
RECURSIVE SumT(_, _, _)
SumT(temps, k, count) ==
  IF k > count THEN 0 ELSE FAdd(temps[k], SumT(temps, k + 1, count))

FrameAvgT(temps, count) == FDiv(SumT(temps, 1, count), K(count))

\* s.avgSystemTemp = lerp(s.avgSystemTemp, frameAvgT, 0.1)
SmoothAverage(s, temps, count) ==
  [s EXCEPT !.avgSystemTemp = Lerp(s.avgSystemTemp, FrameAvgT(temps, count), 1000)]

\* const densityFactor = params.densityEffect || 1.0
DensityFactor(p) ==
  IF p.densityEffect = 0 \/ isNaN(p.densityEffect) THEN One ELSE p.densityEffect

\* inertiaFactor = Math.max(0.01, Math.max(1, s.density) * 0.001 * densityFactor)
InertiaFactor(s, p) ==
  FMax(100, FMul(FMul(FMax(One, s.density), 10), DensityFactor(p)))

\* dragCoeff = (s.viscosity * 100) / inertiaFactor; s.viscosity is in units of 10^-6,
\* so s.viscosity * 100 is the same integer on the grid of 10^-4.
DragCoeff(s, p) == FDiv(s.viscosity, InertiaFactor(s, p))

\* A drag factor without the floor 0, for comparison.
DragFactorUnfloored(s, p, dt) == FMin(9990, FSub(One, FMul(DragCoeff(s, p), dt)))

\* A drag factor capped at 1 instead of 0.999, for comparison.
DragFactorToOne(s, p, dt) == FMax(0, FMin(One, FSub(One, FMul(DragCoeff(s, p), dt))))

\* dragFactor = Math.max(0.0, Math.min(0.999, 1.0 - dragCoeff * dt))
DragFactor(s, p, dt) == FMax(0, FMin(9990, FSub(One, FMul(DragCoeff(s, p), dt))))

\* thermalRate = s.diffusivity * 80000; s.diffusivity is in units of 10^-9, so the
\* product on the grid of 10^-4 is s.diffusivity * 8 / 10.
ThermalRate(s) == FMul(s.diffusivity, 8000)

\* const canConvect = computed.rayleigh > 1000
CanConvect(c) == c.rayleighAbove1000

\* A time step without the cap, for comparison.
TimeStepUncapped(delta) == delta

\* const dt = Math.min(delta, 0.05)
TimeStep(delta) == FMin(delta, 500)

\* Everything the particle loop reads besides the particle itself.
Scalars(s, p, c, delta) ==
  [ dt |-> TimeStep(delta),
    halfH |-> FDiv(p.containerHeight, K(2)),
    radius |-> p.containerRadius,
    containerHeight |-> p.containerHeight,
    boilingPoint |-> p.boilingPoint,
    inertiaFactor |-> InertiaFactor(s, p),
    dragFactor |-> DragFactor(s, p, TimeStep(delta)),
    thermalRate |-> ThermalRate(s),
    avgT |-> s.avgSystemTemp,
    tempSurface |-> s.tempSurface,
    tempFluidInitial |-> s.tempFluidInitial,
    gravity |-> s.gravity,
    expansion |-> s.expansion,
    canConvect |-> CanConvect(c) ]


(***************************************************************************)
(* FluidParticles.tsx lines 141-318: one pass of the particle loop         *)
(***************************************************************************)
\* Heat Source (Bottom) - Conduction
Conduction(pos, T, sc) ==
  IF FLt(FAdd(pos[2], sc.halfH), 200)
  THEN Lerp(T, sc.tempSurface,
            FMul(FMul(FMul(sc.thermalRate, K(20)),
                      FMax(0, FSub(One, FDiv(FAdd(pos[2], sc.halfH), 200)))),
                 sc.dt))
  ELSE T

\* Cooling (Walls & Top)
Cooling(pos, T, sc) ==
  IF FLt(FSub(sc.radius, Hypot(pos[1], pos[3])), 150) \/ FLt(FSub(sc.halfH, pos[2]), 100)
  THEN Lerp(T, sc.tempFluidInitial, FMul(FMul(sc.thermalRate, K(5)), sc.dt))
  ELSE T

\* Bulk mixing (Convection thermal transfer)
BulkMixing(T, sc) ==
  IF sc.canConvect THEN Lerp(T, sc.avgT, FMul(FMul(sc.thermalRate, 1000), sc.dt)) ELSE T

\* Section A without the heat source at the bottom, for comparison.
ThermalPhysicsWithoutSource(pos, T, sc) == BulkMixing(Cooling(pos, T, sc), sc)

\* A. Thermal Physics: conduction at the bottom, cooling at wall and top, bulk mixing.
ThermalPhysics(pos, T, sc) == BulkMixing(Cooling(pos, Conduction(pos, T, sc), sc), sc)

\* buoyancy = s.gravity * s.expansion * tempDiff * 250; s.expansion is in units of
\* 10^-6 and the product stays in them until the end.
Buoyancy(T, sc) ==
  FromMicro(FMul(FMul(FMul(sc.gravity, sc.expansion), FSub(T, sc.avgT)), K(250)))

\* if (temperatures[i] > params.boilingPoint) state[i] = 1 else state[i] = 0
Phase(T, sc) == IF FGt(T, sc.boilingPoint) THEN 1 ELSE 0

\* A vertical force that is buoyancy in either phase, for comparison.
BuoyancyInEitherPhase(T, sc) == FAdd(0, Buoyancy(T, sc))

\* The vertical force before jitter: rapid rise for gas, buoyancy for liquid.
VerticalForce(T, sc) ==
  IF Phase(T, sc) = 1 THEN FAdd(0, FMul(sc.gravity, K(2))) ELSE FAdd(0, Buoyancy(T, sc))

\* Hot rising fluid spreads out at top: f += (c / r) * spread, spread = 2.0 * rNorm
Spread(c, r, rNorm, hotTop) ==
  IF hotTop THEN FAdd(0, FMul(FDiv(c, r), FMul(K(2), rNorm))) ELSE 0

\* Cold sinking fluid draws in at bottom: f -= (c / r) * suck, suck = 2.0
Suck(f, c, r, coldBottom) ==
  IF coldBottom THEN FSub(f, FMul(FDiv(c, r), K(2))) ELSE f

\* A circulation force without the guard on r, for comparison.
CirculationAtAnyRadius(x, z, r, tempDiff, yNorm, sc) ==
  IF sc.canConvect
  THEN << Suck(Spread(x, r, FDiv(r, sc.radius), FGt(tempDiff, 0) /\ FGt(yNorm, 8000)),
               x, r, FLt(tempDiff, 0) /\ FLt(yNorm, 2000)),
          Suck(Spread(z, r, FDiv(r, sc.radius), FGt(tempDiff, 0) /\ FGt(yNorm, 8000)),
               z, r, FLt(tempDiff, 0) /\ FLt(yNorm, 2000)) >>
  ELSE << 0, 0 >>

CirculationAt(x, z, r, tempDiff, yNorm, sc) ==
  IF sc.canConvect /\ FGt(r, 10)
  THEN << Suck(Spread(x, r, FDiv(r, sc.radius), FGt(tempDiff, 0) /\ FGt(yNorm, 8000)),
               x, r, FLt(tempDiff, 0) /\ FLt(yNorm, 2000)),
          Suck(Spread(z, r, FDiv(r, sc.radius), FGt(tempDiff, 0) /\ FGt(yNorm, 8000)),
               z, r, FLt(tempDiff, 0) /\ FLt(yNorm, 2000)) >>
  ELSE << 0, 0 >>

\* 2. Toroidal Circulation Heuristic: the horizontal force <<fx, fz>> before jitter.
Circulation(pos, T, sc) ==
  CirculationAt(pos[1], pos[3], Hypot(pos[1], pos[3]), FSub(T, sc.avgT),
                FDiv(FAdd(pos[2], sc.halfH), sc.containerHeight), sc)

\* 3. Brownian Motion: (Math.random() - 0.5) * jitter, jitter = (T / 500) * 0.05
Jitter(T, u) == FMul(FSub(u, One \div 2), FMul(FDiv(T, K(500)), 500))

\* The forces with jitter, h being the circulation force.
ForcesWith(h, T, sc, d) ==
  << FAdd(h[1], Jitter(T, d.jx)),
     FAdd(VerticalForce(T, sc), Jitter(T, d.jy)),
     FAdd(h[2], Jitter(T, d.jz)) >>

\* B. Forces <<fx, fy, fz>>
Forces(pos, T, sc, d) == ForcesWith(Circulation(pos, T, sc), T, sc, d)

\* Drag on one velocity component: velocities[k] *= dragFactor
ApplyDrag(v, sc) == FMul(v, sc.dragFactor)

\* The velocity left as it is, for comparison with the clamp.
Unclamped(v) == v

\* Velocity Clamp: Math.max(-MAX_VELOCITY, Math.min(MAX_VELOCITY, v))
ClampVelocity(v) == FMax(-MAX_VELOCITY, FMin(MAX_VELOCITY, v))

\* C. Integration (Euler), drag and clamp of one velocity component.
Integrate(v, f, sc) ==
  ClampVelocity(ApplyDrag(FAdd(v, FDiv(FMul(f, sc.dt), sc.inertiaFactor)), sc))

\* Math.cos(Math.atan2(z, x)) and Math.sin(Math.atan2(z, x))
CosAtan2(z, x) ==
  IF isNaN(x) \/ isNaN(z) THEN NaN
  ELSE IF ~isFinite(x) THEN (IF isFinite(z) THEN Sgn(x) * One ELSE Sgn(x) * 7071)
  ELSE IF ~isFinite(z) THEN 0
  ELSE IF x = 0 /\ z = 0 THEN One
  ELSE FDiv(x, Hypot(x, z))

SinAtan2(z, x) ==
  IF isNaN(x) \/ isNaN(z) THEN NaN
  ELSE IF ~isFinite(z) THEN (IF isFinite(x) THEN Sgn(z) * One ELSE Sgn(z) * 7071)
  ELSE IF ~isFinite(x) THEN 0
  ELSE IF x = 0 /\ z = 0 THEN 0
  ELSE FDiv(z, Hypot(x, z))

\* The least natural whose square is at least n.
CeilSqrt(n) ==
  LET s == SqrtSearch(n, 0, 46340)
  IN  IF s * s = n THEN s ELSE s + 1

\* radius * Math.cos(angle) and radius * Math.sin(angle) for angle = Math.atan2(z, x):
\* c is x for the cosine and z for the sine.  Between numbers this is
\* radius * c / sqrt(x^2 + z^2); the quotient is cut to the grid toward the axis, so
\* the grid point stands for a point of the circle of that radius and not for one
\* outside it.
OnCircle(radius, c, x, z, ratio) ==
  IF isFinite(radius) /\ isFinite(x) /\ isFinite(z) /\ (x # 0 \/ z # 0)
  THEN Sgn(radius) * Sgn(c) * ((Abs(radius) * Abs(c)) \div CeilSqrt(x * x + z * z))
  ELSE FMul(radius, ratio)

\* A floor that bounces without conducting heat, for comparison.
FloorWithoutConduction(k, sc) ==
  IF FLt(k.pos[2], FNeg(sc.halfH))
  THEN [ pos |-> << k.pos[1], FAdd(FNeg(sc.halfH), 10), k.pos[3] >>,
         vel |-> << k.vel[1], FMul(k.vel[2], -4000), k.vel[3] >>,
         T |-> k.T ]
  ELSE k

\* A floor that damps the vertical velocity without turning it, for comparison.
FloorWithoutTurn(k, sc) ==
  IF FLt(k.pos[2], FNeg(sc.halfH))
  THEN [ pos |-> << k.pos[1], FAdd(FNeg(sc.halfH), 10), k.pos[3] >>,
         vel |-> << k.vel[1], FMul(k.vel[2], 4000), k.vel[3] >>,
         T |-> Lerp(k.T, sc.tempSurface, 2000) ]
  ELSE k

\* D. Boundary Constraints: floor, then ceiling, then wall.  k is the kinematic state
\* [pos, vel, T] after the position update.
Floor(k, sc) ==
  IF FLt(k.pos[2], FNeg(sc.halfH))
  THEN [ pos |-> << k.pos[1], FAdd(FNeg(sc.halfH), 10), k.pos[3] >>,
         vel |-> << k.vel[1], FMul(k.vel[2], -4000), k.vel[3] >>,
         T |-> Lerp(k.T, sc.tempSurface, 2000) ]
  ELSE k

Ceiling(k, sc) ==
  IF FGt(k.pos[2], sc.halfH)
  THEN [ pos |-> << k.pos[1], FSub(sc.halfH, 10), k.pos[3] >>,
         vel |-> << k.vel[1], FMul(k.vel[2], -4000), k.vel[3] >>,
         T |-> k.T ]
  ELSE k

\* The particle left where it is, for comparison with the wall resolution.
NoWalls(k, sc) == k

Walls(k, sc) ==
  IF FGt(Hypot(k.pos[1], k.pos[3]), sc.radius)
  THEN [ pos |-> << OnCircle(sc.radius, k.pos[1], k.pos[1], k.pos[3],
                             CosAtan2(k.pos[3], k.pos[1])),
                    k.pos[2],
                    OnCircle(sc.radius, k.pos[3], k.pos[1], k.pos[3],
                             SinAtan2(k.pos[3], k.pos[1])) >>,
         vel |-> << FMul(k.vel[1], -5000), k.vel[2], FMul(k.vel[3], -5000) >>,
         T |-> k.T ]
  ELSE k

\* Safety Check for NaN / Infinity: the test and the reset.
Unstable(k) == ~isFinite(k.pos[1]) \/ ~isFinite(k.pos[2]) \/ ~isFinite(k.pos[3])

Recover(k, sc, d) ==
  LET safeR == FMul(FMul(d.sr, sc.radius), 8000)
  IN  IF Unstable(k)
      THEN [ pos |-> << FMul(safeR, d.sdir[1]),
                        FMul(FSub(d.sy, One \div 2), sc.halfH),
                        FMul(safeR, d.sdir[2]) >>,
             vel |-> << 0, 0, 0 >>,
             T |-> sc.tempFluidInitial ]
      ELSE k

\* velocities[idx .. idx+2] after integration, drag and clamp.
Velocity(vel, f, sc) ==
  << Integrate(vel[1], f[1], sc), Integrate(vel[2], f[2], sc), Integrate(vel[3], f[3], sc) >>

\* Update Position: x += velocities[idx] * dt, and so for y and z.
Position(pos, v, sc) ==
  << FAdd(pos[1], FMul(v[1], sc.dt)),
     FAdd(pos[2], FMul(v[2], sc.dt)),
     FAdd(pos[3], FMul(v[3], sc.dt)) >>

Moved(pos, v, T, sc) == [ pos |-> Position(pos, v, sc), vel |-> v, T |-> T ]

\* Sections B and C: forces, integration, drag, clamp and the position update.  T is
\* the temperature after section A.
Move(pos, vel, T, sc, d) == Moved(pos, Velocity(vel, Forces(pos, T, sc, d), sc), T, sc)

\* Section D on the moved particle.
Boundaries(k, sc) == Walls(Ceiling(Floor(k, sc), sc), sc)

\* Sections B to D and the safety check for one particle.
Kinematics(pos, vel, T, sc, d) == Recover(Boundaries(Move(pos, vel, T, sc, d), sc), sc, d)

\* this.r = c1.r + (c2.r - c1.r) * alpha, per channel (Color.lerpColors, Color.lerp)
LerpColors(c1, c2, alpha) ==
  << FAdd(c1[1], FMul(FSub(c2[1], c1[1]), alpha)),
     FAdd(c1[2], FMul(FSub(c2[2], c1[2]), alpha)),
     FAdd(c1[3], FMul(FSub(c2[3], c1[3]), alpha)) >>

\* Math.min(1, speed * 2) for speed = sqrt(vx^2 + vy^2 + vz^2); a component of 0.5 or
\* more already makes it 1.
Bright(vel) ==
  IF \E c \in 1..3 : isNaN(vel[c]) THEN NaN
  ELSE IF \E c \in 1..3 : Abs(vel[c]) >= One \div 2 THEN One
  ELSE FMin(One, FMul(ISqrt(vel[1] * vel[1] + vel[2] * vel[2] + vel[3] * vel[3]), K(2)))

\* The 4-stop heat-map gradient.
Gradient(tNorm) ==
  IF FLt(tNorm, 2500) THEN LerpColors(_cBlue, _cCyan, FMul(tNorm, K(4)))
  ELSE IF FLt(tNorm, 5000) THEN LerpColors(_cCyan, _cGreen, FMul(FSub(tNorm, 2500), K(4)))
  ELSE IF FLt(tNorm, 7500) THEN LerpColors(_cGreen, _cYellow, FMul(FSub(tNorm, 5000), K(4)))
  ELSE LerpColors(_cYellow, _cRed, FMul(FSub(tNorm, 7500), K(4)))

\* tNorm: the temperature between T_inf and Ts, clamped to [0, 1]
TNorm(T, sc) ==
  FMax(0, FMin(One, FDiv(FSub(T, sc.tempFluidInitial),
                         FMax(One, FSub(sc.tempSurface, sc.tempFluidInitial)))))

IsConducting(k, sc) ==
  FLt(FAdd(k.pos[2], sc.halfH), 150) /\ FGt(k.T, FAdd(sc.tempFluidInitial, K(5)))

\* A watery look that gains 0.4 with brightness instead of 0.2, for comparison.
WateryBrighter(bright) ==
  << FAdd(1000, FMul(bright, 4000)),
     FAdd(4000, FMul(bright, 4000)),
     FAdd(8000, FMul(bright, 4000)) >>

\* Standard Watery Look: setRGB(0.1 + bright*0.2, 0.4 + bright*0.2, 0.8 + bright*0.2)
Watery(bright) ==
  << FAdd(1000, FMul(bright, 2000)),
     FAdd(4000, FMul(bright, 2000)),
     FAdd(8000, FMul(bright, 2000)) >>

\* A colour selection that tests the conduction glow before the phase, for comparison.
ColourOfGlowFirst(tNorm, isConducting, watery, phase, heatMap) ==
  IF heatMap /\ isConducting THEN _cGlow
  ELSE IF phase = 1 THEN _cGas
  ELSE IF heatMap THEN Gradient(tNorm)
  ELSE IF isConducting THEN LerpColors(watery, _cGlow, One \div 2)
  ELSE watery

ColourOf(tNorm, isConducting, watery, phase, heatMap) ==
  IF phase = 1 THEN _cGas
  ELSE IF heatMap THEN (IF isConducting THEN _cGlow ELSE Gradient(tNorm))
  ELSE IF isConducting THEN LerpColors(watery, _cGlow, One \div 2)
  ELSE watery

\* E. Visualization Color
Colour(k, phase, sc, heatMap) ==
  ColourOf(TNorm(k.T, sc), IsConducting(k, sc), Watery(Bright(k.vel)), phase, heatMap)

\* What the loop body writes for particle i: kinematic state k, phase and colour.
Write(arr, i, k, phase, colour) ==
  [ arr EXCEPT !.positions[i] = k.pos,
               !.velocities[i] = k.vel,
               !.temperatures[i] = k.T,
               !.state[i] = phase,
               !.colors[i] = colour ]

\* Section E and the writes, and before them sections B to D, for particle i; T3 is
\* its temperature after section A.
Finish(arr, i, k, phase, sc, heatMap) ==
  Write(arr, i, k, phase, Colour(k, phase, sc, heatMap))

AfterThermal(arr, i, T3, sc, d, heatMap) ==
  Finish(arr, i, Kinematics(arr.positions[i], arr.velocities[i], T3, sc, d), Phase(T3, sc),
         sc, heatMap)

\* The arrays with the velocity of every other particle zeroed when particle i, which
\* reached the safety check as k, was reset.
ZeroOthers(after, i, k) ==
  [ after EXCEPT !.velocities =
      [j \in DOMAIN after.velocities |->
         IF j # i /\ Unstable(k) THEN << 0, 0, 0 >> ELSE after.velocities[j]] ]

ResetAllAt(arr, i, T3, k, sc, d, heatMap) ==
  ZeroOthers(Finish(arr, i, Recover(k, sc, d), Phase(T3, sc), sc, heatMap), i, k)

ResetAllAfterThermal(arr, i, T3, sc, d, heatMap) ==
  ResetAllAt(arr, i, T3,
             Boundaries(Move(arr.positions[i], arr.velocities[i], T3, sc, d), sc),
             sc, d, heatMap)

\* A loop body whose reset also zeroes the velocity of every other particle, for
\* comparison.
UpdateParticleResetAll(arr, i, sc, d, heatMap) ==
  ResetAllAfterThermal(arr, i, ThermalPhysics(arr.positions[i], arr.temperatures[i], sc),
                       sc, d, heatMap)

\* A loop body that integrates particle i from the velocity of the first particle, for
\* comparison.
ReadingFirstAfterThermal(arr, i, T3, sc, d, heatMap) ==
  Finish(arr, i, Kinematics(arr.positions[i], arr.velocities[1], T3, sc, d),
         Phase(T3, sc), sc, heatMap)

UpdateParticleReadingFirst(arr, i, sc, d, heatMap) ==
  ReadingFirstAfterThermal(arr, i, ThermalPhysics(arr.positions[i], arr.temperatures[i], sc),
                           sc, d, heatMap)

\* The arrays after the loop body has run for particle i.
UpdateParticle(arr, i, sc, d, heatMap) ==
  AfterThermal(arr, i, ThermalPhysics(arr.positions[i], arr.temperatures[i], sc),
               sc, d, heatMap)

\* for (let i = 0; i < count; i++) { ... }
RECURSIVE ParticleLoop(_, _, _, _, _, _)
ParticleLoop(arr, i, count, sc, ds, heatMap) ==
  IF i > count THEN arr
  ELSE ParticleLoop(UpdateParticle(arr, i, sc, ds[i], heatMap), i + 1, count, sc, ds, heatMap)


(***************************************************************************)
(* Inputs: the Math.random() draws, the frame times and the edited values  *)
(***************************************************************************)
\* The draws of the useMemo loop for one particle: radial, angle, vertical, variance.
InitDrawList ==
  << [ u |-> RandomLow, dir |-> << One, 0 >>, v |-> RandomLow, w |-> RandomLow ],
     [ u |-> RandomHigh, dir |-> << 6000, 8000 >>, v |-> RandomHigh, w |-> RandomHigh ],
     [ u |-> 2500, dir |-> << 0, -One >>, v |-> RandomMid, w |-> RandomMid ] >>

\* The draws of one pass of the frame loop: three for jitter, three for a reset.
FrameDrawList ==
  << [ jx |-> RandomLow, jy |-> RandomLow, jz |-> RandomLow,
       sr |-> RandomLow, sdir |-> << One, 0 >>, sy |-> RandomLow ],
     [ jx |-> RandomHigh, jy |-> RandomHigh, jz |-> RandomHigh,
       sr |-> RandomHigh, sdir |-> << 6000, 8000 >>, sy |-> RandomHigh ],
     [ jx |-> RandomMid, jy |-> RandomMid, jz |-> RandomMid,
       sr |-> RandomMid, sdir |-> << 0, -One >>, sy |-> RandomMid ] >>

\* Profile k gives particle i the entry i + k of a list, cyclically.
Profile(list, k) == [i \in 1..(MaxParticles + 1) |-> list[((i + k) % Len(list)) + 1]]
InitProfiles == { Profile(InitDrawList, k) : k \in 0..1 }
FrameProfiles == { Profile(FrameDrawList, k) : k \in 0..1 }

\* delta of useFrame, in seconds: 0, 16 ms, and 100 ms (above the cap).
Deltas == { 0, 160, 1000 }

\* The values an edit can give each field (ParameterInput.onChange).
EditValues ==
  [ particleCount |-> 1..MaxParticles,
    containerRadius |-> { 1000, 5, NaN },
    containerHeight |-> { 2000, 10, 6, NaN },
    boilingPoint |-> { 3731500, K(200) },
    densityEffect |-> { One, 100 },
    tempSurface |-> { K(350), NaN } ]

(***************************************************************************)
(* The handlers                                                            *)
(***************************************************************************)
Arrays ==
  [ positions |-> positions, velocities |-> velocities, temperatures |-> temperatures,
    colors |-> colors, state |-> state, meta |-> meta ]

SetArrays(arr) ==
  /\ positions' = arr.positions
  /\ velocities' = arr.velocities
  /\ temperatures' = arr.temperatures
  /\ colors' = arr.colors
  /\ state' = arr.state
  /\ meta' = arr.meta

\* The arrays as useMemo has just returned them.
ArraysAre(arr) ==
  /\ positions = arr.positions
  /\ velocities = arr.velocities
  /\ temperatures = arr.temperatures
  /\ colors = arr.colors
  /\ state = arr.state
  /\ meta = arr.meta

\* No file has been saved or loaded and no timer is pending.
NoLoad == [ kind |-> "none", serial |-> 0 ]

ShellInit == downloads = {} /\ timers = 0 /\ load = NoLoad

NoFrame == [ kind |-> "none", delta |-> 0, draws |-> << >>, before |-> << >>, sBefore |-> << >> ]

\* The mark of a mount, or of an edit of a dependency of the arrays' useMemo.
Created == [NoFrame EXCEPT !.kind = "created"]

ArrayDependencies == { "particleCount", "containerRadius", "containerHeight" }

\* App and FluidSystem mount with DEFAULT_PARAMS.
Init ==
  /\ params = DEFAULT_PARAMS
  /\ computed = Computed(DEFAULT_PARAMS)
  /\ isPlaying = TRUE
  /\ showHeatMap = TRUE
  /\ simState = NewSimState(DEFAULT_PARAMS)
  /\ \E ds \in InitProfiles : ArraysAre(NewArrays(DEFAULT_PARAMS, ds))
  /\ frame = Created
  /\ ticks = 0
  /\ edits = 0
  /\ ShellInit

\* The state after a played frame: smoothing, the scalars, then the particle loop.
PlayedWith(s1, delta, ds) ==
  [ simState |-> s1,
    arrays |-> ParticleLoop(Arrays, 1, params.particleCount,
                            Scalars(s1, params, computed, delta), ds, showHeatMap) ]

Played(delta, ds) ==
  PlayedWith(SmoothAverage(Smooth(simState, params), temperatures, params.particleCount),
             delta, ds)

\* The refs and arrays take the values a played frame leaves.
Commit(after) == simState' = after.simState /\ SetArrays(after.arrays)

\* A gate that lets every frame through, for comparison.
PlayingAlways == TRUE

\* if (!pointsRef.current || !isPlaying) return; the points are mounted with the
\* particle system, so the callback goes on exactly when isPlaying.
Playing == isPlaying

\* useFrame((_, delta) => { ... }) when it does not return early.
FrameStep(delta, ds) ==
  /\ Playing
  /\ Commit(Played(delta, ds))
  /\ frame' = [ kind |-> "played", delta |-> delta, draws |-> ds,
                before |-> Arrays, sBefore |-> simState ]
  /\ ticks' = ticks + 1
  /\ UNCHANGED << params, computed, isPlaying, showHeatMap, edits, shell >>

PlayedFrame(delta, ds) == ticks < MaxTicks /\ FrameStep(delta, ds)

PausedFrame ==
  /\ ~Playing
  /\ frame.kind # "paused"
  /\ frame' = [ kind |-> "paused", delta |-> 0, draws |-> << >>,
                before |-> Arrays, sBefore |-> simState ]
  /\ UNCHANGED << params, computed, isPlaying, showHeatMap, simState, positions, velocities,
                  temperatures, state, colors, meta, ticks, edits, shell >>

Frame == PausedFrame \/ \E delta \in Deltas, ds \in FrameProfiles : PlayedFrame(delta, ds)

\* An edit after which only a new particleCount re-creates the arrays, for comparison.
UpdateParamCountOnly(key, value, ds) ==
  /\ edits < MaxEdits
  /\ value # params[key]
  /\ params' = [params EXCEPT ![key] = value]
  /\ computed' = Computed(params')
  /\ simState' = IF key = "particleCount" THEN NewSimState(params') ELSE simState
  /\ IF key = "particleCount"
     THEN SetArrays(NewArrays(params', ds))
     ELSE UNCHANGED << positions, velocities, temperatures, state, colors, meta >>
  /\ frame' = IF key \in ArrayDependencies THEN Created ELSE NoFrame
  /\ edits' = edits + 1
  /\ UNCHANGED << isPlaying, showHeatMap, ticks, shell >>

\* An edit after which a new geometry also re-initialises the smoothed parameters, for
\* comparison.
UpdateParamRemounting(key, value, ds) ==
  /\ edits < MaxEdits
  /\ value # params[key]
  /\ params' = [params EXCEPT ![key] = value]
  /\ computed' = Computed(params')
  /\ simState' = IF key \in ArrayDependencies THEN NewSimState(params') ELSE simState
  /\ IF key \in ArrayDependencies
     THEN SetArrays(NewArrays(params', ds))
     ELSE UNCHANGED << positions, velocities, temperatures, state, colors, meta >>
  /\ frame' = IF key \in ArrayDependencies THEN Created ELSE NoFrame
  /\ edits' = edits + 1
  /\ UNCHANGED << isPlaying, showHeatMap, ticks, shell >>

\* updateParam(key, value): setParams(prev => ({ ...prev, [key]: value })), and what
\* React re-creates for it: a new particleCount changes the key of FluidSystem
\* (Scene3D.tsx line 49), which remounts it; a new containerRadius or containerHeight
\* re-runs the useMemo of the arrays.
UpdateParam(key, value, ds) ==
  /\ edits < MaxEdits
  /\ value # params[key]
  /\ params' = [params EXCEPT ![key] = value]
  /\ computed' = Computed(params')
  /\ simState' = IF key = "particleCount" THEN NewSimState(params') ELSE simState
  /\ IF key \in ArrayDependencies
     THEN SetArrays(NewArrays(params', ds))
     ELSE UNCHANGED << positions, velocities, temperatures, state, colors, meta >>
  /\ frame' = IF key \in ArrayDependencies THEN Created ELSE NoFrame
  /\ edits' = edits + 1
  /\ UNCHANGED << isPlaying, showHeatMap, ticks, shell >>

Edit ==
  \E key \in DOMAIN EditValues, ds \in InitProfiles :
    \E value \in EditValues[key] : UpdateParam(key, value, ds)

\* onTogglePlay={() => setIsPlaying(!isPlaying)}
TogglePlay ==
  /\ edits < MaxEdits
  /\ isPlaying' = ~isPlaying
  /\ frame' = NoFrame
  /\ edits' = edits + 1
  /\ UNCHANGED << params, computed, showHeatMap, simState, positions, velocities, temperatures,
                  state, colors, meta, ticks, shell >>

\* onClick={() => setShowHeatMap(!showHeatMap)}
ToggleHeatMap ==
  /\ edits < MaxEdits
  /\ showHeatMap' = ~showHeatMap
  /\ frame' = NoFrame
  /\ edits' = edits + 1
  /\ UNCHANGED << params, computed, isPlaying, simState, positions, velocities, temperatures,
                  state, colors, meta, ticks, shell >>

Next == Frame \/ Edit \/ TogglePlay \/ ToggleHeatMap

Spec == Init /\ [][Next]_vars

(***************************************************************************)
(* App.tsx: save, load, reset and the play timer.  A configuration file is  *)
(* modelled by what FileReader and JSON.parse make of its text: an empty    *)
(* text, a text that is not JSON, the JSON value null, or a JSON object     *)
(* with some fields, each a number or null.                                 *)
(***************************************************************************)
\* The JSON value null, which is none of the numbers.
Null == NaN + 1

\* JSON.stringify of a number: NaN and the infinities are written as null.
ToJson(v) == IF isFinite(v) THEN v ELSE Null

\* JSON.stringify(params, null, 2): every field of the configuration.
Stringify(p) == [ kind |-> "object", fields |-> [k \in DOMAIN p |-> ToJson(p[k])] ]

\* loadedParams[k] used as a condition: absent, null, 0 and NaN are falsy.
Truthy(obj, k) == k \in DOMAIN obj /\ obj[k] # Null /\ obj[k] # 0 /\ ~isNaN(obj[k])

\* if (loadedParams.containerRadius && loadedParams.gravity)
LooksLikeParams(obj) == Truthy(obj, "containerRadius") /\ Truthy(obj, "gravity")

\* { ...prev, ...loadedParams }
Merge(prev, obj) ==
  [k \in DOMAIN prev \cup DOMAIN obj |-> IF k \in DOMAIN obj THEN obj[k] ELSE prev[k]]

\* What handleLoadSimulation does with a file: "accepted", an alert, or nothing.
\* An empty text fails if (e.target?.result); a text that is not JSON makes JSON.parse
\* throw, and null makes the read of loadedParams.containerRadius throw.
LoadOutcome(file) ==
  CASE file.kind = "empty" -> "ignored"
    [] file.kind \in { "text", "null" } -> "failed"
    [] file.kind = "object" ->
         IF LooksLikeParams(file.fields) THEN "accepted" ELSE "invalid"

\* The message of window.alert for an outcome.
AlertOf(outcome) ==
  CASE outcome = "invalid" -> "Invalid configuration file."
    [] outcome = "failed" -> "Failed to load file."
    [] OTHER -> "none"

\* Files a user can have besides the ones saved here.
HandMadeFiles ==
  { [ kind |-> "empty" ],
    [ kind |-> "text" ],
    [ kind |-> "null" ],
    [ kind |-> "object", fields |-> [ gravity |-> 16200, tempSurface |-> K(400) ] ],
    [ kind |-> "object", fields |-> [ containerRadius |-> 2000, tempSurface |-> K(400) ] ],
    [ kind |-> "object", fields |-> [ tempSurface |-> K(400) ] ],
    [ kind |-> "object", fields |-> [ containerRadius |-> 2000, gravity |-> 16200 ] ] }

\* What React re-creates when the configuration becomes p: a new particleCount or a
\* new resetKey changes the key of FluidSystem (Scene3D.tsx line 49) and remounts it; a
\* new containerRadius or containerHeight re-runs the useMemo of the arrays.
Rerender(p, reset, ds) ==
  /\ params' = p
  /\ computed' = Computed(p)
  /\ simState' = IF reset \/ p.particleCount # params.particleCount
                 THEN NewSimState(p) ELSE simState
  /\ IF reset \/ \E k \in ArrayDependencies : p[k] # params[k]
     THEN SetArrays(NewArrays(p, ds)) /\ frame' = Created
     ELSE /\ UNCHANGED << positions, velocities, temperatures, state, colors, meta >>
          /\ frame' = NoFrame

\* A download: the configuration saved and the file written for it.
Saved(p) == [ from |-> p, file |-> Stringify(p) ]

SavedFiles == { d.file : d \in downloads }

\* handleSaveSimulation: the browser downloads thermosim_config.json.
Save ==
  /\ Saved(params) \notin downloads
  /\ downloads' = downloads \cup { Saved(params) }
  /\ UNCHANGED << params, computed, isPlaying, showHeatMap, simState, positions, velocities,
                  temperatures, state, colors, meta, frame, ticks, edits, timers, load >>

\* handleLoadSimulation with reader.onload, for the file the user picked.
LoadFile(file, ds) ==
  /\ edits < MaxEdits
  /\ load' = [ kind |-> LoadOutcome(file), serial |-> load.serial + 1, file |-> file,
               params |-> params, isPlaying |-> isPlaying,
               alert |-> AlertOf(LoadOutcome(file)) ]
  /\ IF LoadOutcome(file) = "accepted"
     THEN /\ Rerender(Merge(params, file.fields), FALSE, ds)
          /\ isPlaying' = FALSE
          /\ timers' = timers + 1
     ELSE /\ frame' = NoFrame
          /\ UNCHANGED << params, computed, isPlaying, simState, positions, velocities,
                          temperatures, state, colors, meta, timers >>
  /\ edits' = edits + 1
  /\ UNCHANGED << showHeatMap, ticks, downloads >>

Load == \E file \in SavedFiles \cup HandMadeFiles, ds \in InitProfiles : LoadFile(file, ds)

\* handleReset
ResetWith(ds) ==
  /\ edits < MaxEdits
  /\ Rerender(DEFAULT_PARAMS, TRUE, ds)
  /\ isPlaying' = FALSE
  /\ timers' = timers + 1
  /\ edits' = edits + 1
  /\ UNCHANGED << showHeatMap, ticks, downloads, load >>

Reset == \E ds \in InitProfiles : ResetWith(ds)

\* A timer that leaves the play state as it finds it, for comparison.
TimerFiresKeepingPause ==
  /\ timers > 0
  /\ timers' = timers - 1
  /\ frame' = NoFrame
  /\ UNCHANGED << params, computed, isPlaying, showHeatMap, simState, positions, velocities,
                  temperatures, state, colors, meta, ticks, edits, downloads, load >>

\* setTimeout(() => setIsPlaying(true), 100) comes due.
TimerFires ==
  /\ timers > 0
  /\ timers' = timers - 1
  /\ isPlaying' = TRUE
  /\ frame' = NoFrame
  /\ UNCHANGED << params, computed, showHeatMap, simState, positions, velocities, temperatures,
                  state, colors, meta, ticks, edits, downloads, load >>

\* The values the sliders of Sidebar.tsx give at the ends of their ranges, and what
\* the number input gives when it is emptied.
FileEditValues ==
  [ gravity |-> { 0, K(50) },
    containerRadius |-> { 100, One },
    boilingPoint |-> { K(800), NaN } ]

FileEdit ==
  \E key \in DOMAIN FileEditValues, ds \in InitProfiles :
    \E value \in FileEditValues[key] : UpdateParam(key, value, ds)

FileNext == FileEdit \/ Save \/ Load \/ Reset \/ TimerFires \/ TogglePlay

SpecFile == Init /\ [][FileNext]_vars

\* The browser runs every timer that is due: a pending setTimeout callback is never
\* cancelled (there is no clearTimeout), so it eventually runs.
SpecFileFair == SpecFile /\ WF_vars(TimerFires)

(***************************************************************************)
(* The lifetime of the smoothed parameters: edits of a smoothed field, of  *)
(* the geometry and of the particle count, Reset with its timer, and the   *)
(* frames in between.  An emptied number input gives NaN.                   *)
(***************************************************************************)
LifeEditValues ==
  [ tempSurface |-> { K(350), K(400), NaN },
    tempFluidInitial |-> { K(293), NaN },
    containerHeight |-> { 1000, 2000 },
    containerRadius |-> { 500, 1000 },
    particleCount |-> 1..MaxParticles ]

LifeEdit ==
  \E key \in DOMAIN LifeEditValues, ds \in InitProfiles :
    \E value \in LifeEditValues[key] : UpdateParam(key, value, ds)

LifeNext == LifeEdit \/ Frame \/ Reset \/ TimerFires

SpecLife == Init /\ [][LifeNext]_vars

(***************************************************************************)
(* The example scenario: three particles 1 mm above the floor              *)
(***************************************************************************)
ExampleCount == 3

ExampleParams == [DEFAULT_PARAMS EXCEPT !.particleCount = ExampleCount]

\* The draws of the useMemo loop that put a particle at y = (0.005 - 0.5) * 0.2 =
\* -0.099: at the smallest radius, inside the fluid, and at 0.9 * containerRadius.
ExamplePlaces ==
  { [ u |-> RandomLow, dir |-> << One, 0 >>, v |-> 50, w |-> RandomMid ],
    [ u |-> 2500, dir |-> << 0, -One >>, v |-> 50, w |-> RandomMid ],
    [ u |-> RandomHigh, dir |-> << 6000, 8000 >>, v |-> 50, w |-> RandomMid ] }

ExampleFrameDraws ==
  { [i \in 1..ExampleCount |-> FrameDrawList[((i + k) % Len(FrameDrawList)) + 1]] :
      k \in 0..2 }

\* FluidSystem mounted with the configuration of the scenario.  computed is a prop of
\* FluidSystem: App passes the value derived from params, for which the convection
\* gate is on, and the scenario passes one for which it is off.
ExampleInit ==
  /\ params = ExampleParams
  /\ computed \in { Computed(ExampleParams), [ rayleighAbove1000 |-> FALSE ] }
  /\ isPlaying = TRUE
  /\ showHeatMap = TRUE
  /\ simState = NewSimState(ExampleParams)
  /\ \E ds \in [1..ExampleCount -> ExamplePlaces] : ArraysAre(NewArrays(ExampleParams, ds))
  /\ frame = Created
  /\ ticks = 0
  /\ edits = 0
  /\ ShellInit

\* A frame with delta = 0.016.
ExampleFrame == \E ds \in ExampleFrameDraws : PlayedFrame(160, ds)

SpecExample == ExampleInit /\ [][ExampleFrame]_vars

(***************************************************************************)
(* The integrator on an ensemble into which a non-finite coordinate has    *)
(* been written: the mounted ensemble with one coordinate of one particle  *)
(* set to NaN, +Infinity or -Infinity before the frames run.               *)
(***************************************************************************)
NonFinite == { NaN, PInf, NInf }

InjectInit ==
  /\ params = DEFAULT_PARAMS
  /\ computed = Computed(DEFAULT_PARAMS)
  /\ isPlaying = TRUE
  /\ showHeatMap = TRUE
  /\ simState = NewSimState(DEFAULT_PARAMS)
  /\ \E ds \in InitProfiles, i \in 1..MaxParticles, c \in 1..3, bad \in NonFinite :
       ArraysAre([NewArrays(DEFAULT_PARAMS, ds) EXCEPT !.positions[i][c] = bad])
  /\ frame = NoFrame
  /\ ticks = 0
  /\ edits = 0
  /\ ShellInit

InjectFrame == \E delta \in Deltas, ds \in FrameProfiles : PlayedFrame(delta, ds)

SpecInject == InjectInit /\ [][InjectFrame]_vars

(***************************************************************************)
(* The integrator under fluid properties from the whole of their ranges:   *)
(* FluidSystem mounted, as a change of particleCount mounts it, under a     *)
(* configuration whose density, densityEffect and viscosityDynamic are the  *)
(* ends of the sliders of Sidebar.tsx or values typed into the number       *)
(* inputs.                                                                  *)
(***************************************************************************)
\* kg/m^3: 0.5 (typed), water, and the top of the slider.
Densities == { One \div 2, K(998), K(5000) }

\* 0 (typed), the ends of the slider, and the default.
DensityEffects == { 0, 1000, One, K(10) }

\* Units of 10^-6 Pa.s: the bottom of the slider, water, and the top of the slider.
Viscosities == { 10, 1002, 10 * 1000 * 1000 }

FluidParams ==
  { [DEFAULT_PARAMS EXCEPT !.density = d, !.densityEffect = e, !.viscosityDynamic = v] :
      d \in Densities, e \in DensityEffects, v \in Viscosities }

FluidInit ==
  /\ params \in FluidParams
  /\ computed = Computed(params)
  /\ isPlaying = TRUE
  /\ showHeatMap = TRUE
  /\ simState = NewSimState(params)
  /\ ArraysAre(NewArrays(params, Profile(InitDrawList, 0)))
  /\ frame = Created
  /\ ticks = 0
  /\ edits = 0
  /\ ShellInit

FluidFrame == \E delta \in Deltas, ds \in FrameProfiles : PlayedFrame(delta, ds)

SpecFluid == FluidInit /\ [][FluidFrame]_vars

(***************************************************************************)
(* The forces as a function of where a particle is and how warm: the       *)
(* ensemble of the default configuration with every particle at a place     *)
(* and temperature drawn from the cases of the circulation heuristic: on    *)
(* the axis, where the safety check can put a particle, at the smallest     *)
(* radius of the initialisation and at half the radius; in the bottom and   *)
(* in the top fifth of the vessel; colder and warmer than the average.      *)
(* computed is a prop of FluidSystem: the convection gate is on for the     *)
(* value App derives from the default configuration, and the other value    *)
(* closes it.                                                               *)
(***************************************************************************)
ForceStarts ==
  { [ pos |-> << x, y, 0 >>, T |-> t ] :
      x \in { 0, 10, 500 }, y \in { -700, 900 }, t \in { K(283), K(340) } }

ForceInit ==
  /\ params = DEFAULT_PARAMS
  /\ computed \in { Computed(DEFAULT_PARAMS), [ rayleighAbove1000 |-> FALSE ] }
  /\ isPlaying = TRUE
  /\ showHeatMap = TRUE
  /\ simState = NewSimState(DEFAULT_PARAMS)
  /\ \E at \in [1..MaxParticles -> ForceStarts] :
       ArraysAre([NewArrays(DEFAULT_PARAMS, Profile(InitDrawList, 0)) EXCEPT
                    !.positions = [i \in 1..MaxParticles |-> at[i].pos],
                    !.temperatures = [i \in 1..MaxParticles |-> at[i].T]])
  /\ frame = NoFrame
  /\ ticks = 0
  /\ edits = 0
  /\ ShellInit

ForceFrame == \E delta \in Deltas, ds \in FrameProfiles : PlayedFrame(delta, ds)

SpecForce == ForceInit /\ [][ForceFrame]_vars

(***************************************************************************)
(* The flow regime App displays next to the gate the particle system reads: *)
(* both come from the same rayleigh of the same useMemo.  The particle      *)
(* system is mounted under configurations from the ranges of the sliders,   *)
(* on both sides of each threshold: water and the most viscous fluid, the   *)
(* lowest and the default vessel, surfaces 2, 7, 57 and 107 K above the     *)
(* fluid, and the diffusivity of water, the bottom of its slider and the    *)
(* values 1.25e-5 and 2e-5 inside it.                                       *)
(***************************************************************************)
\* avgFluidTemp: params.tempFluidInitial + (deltaT * 0.4)
EstimatedInternalTemp(p) == FAdd(p.tempFluidInitial, FMul(DeltaT(p), 4000))

\* fluidState === 'gas'
Boils(p) ==
  \/ FLe(p.boilingPoint, EstimatedInternalTemp(p))
  \/ FGt(p.tempSurface, p.boilingPoint)

FlowRegime(p) ==
  IF Boils(p) THEN "Boiling / Phase Change"
  ELSE IF RayleighExceeds(p, 1708)
       THEN (IF RayleighExceeds(p, 1000 * 1000 * 1000)
             THEN "Turbulent Convection" ELSE "Laminar Convection")
       ELSE "Conductive"

\* Units of 10^-9 m^2/s.
Diffusivities == { 1, 143, 12500, 20000 }

SliderParams ==
  { [DEFAULT_PARAMS EXCEPT !.viscosityDynamic = v, !.containerHeight = h, !.tempSurface = t,
                           !.thermalDiffusivity = a] :
      v \in { 1002, 10 * 1000 * 1000 },
      h \in { 500, 2000 },
      t \in { K(295), K(300), K(350), K(400) },
      a \in Diffusivities }

SliderInit ==
  /\ params \in SliderParams
  /\ computed = Computed(params)
  /\ isPlaying = TRUE
  /\ showHeatMap = TRUE
  /\ simState = NewSimState(params)
  /\ \E ds \in InitProfiles : ArraysAre(NewArrays(params, ds))
  /\ frame = Created
  /\ ticks = 0
  /\ edits = 0
  /\ ShellInit

SpecSliders == SliderInit /\ [][FluidFrame]_vars

(***************************************************************************)
(* Smoothing under a configuration that is held constant: the edits come   *)
(* before the first frame, and the render loop keeps calling the frame     *)
(* callback.                                                               *)
(***************************************************************************)
MaxSmoothTicks == 80

SmoothTargets ==
  [ tempSurface |-> K(350) + 150,
    tempFluidInitial |-> K(293) - 120,
    gravity |-> 98100 + 200,
    viscosityDynamic |-> 1002 - 150,
    expansionCoefficient |-> 207 + 100,
    thermalDiffusivity |-> 143 - 100,
    density |-> K(998) + 180 ]

SmoothEdit ==
  /\ ticks = 0
  /\ \E key \in DOMAIN SmoothTargets :
       UpdateParam(key, SmoothTargets[key], Profile(InitDrawList, 0))

SmoothFrame == ticks < MaxSmoothTicks /\ FrameStep(160, Profile(FrameDrawList, 0))

SmoothNext == SmoothEdit \/ SmoothFrame

\* The render loop calls the frame callback for every animation frame; while the
\* simulation plays, a call is a step that raises ticks.
FrameCalled == ticks < MaxSmoothTicks /\ Playing /\ ticks' = ticks + 1

SpecSmooth == Init /\ [][SmoothNext]_vars /\ WF_ticks(FrameCalled)

(***************************************************************************)
(* What the properties below read                                          *)
(***************************************************************************)
\* The state is the one a played frame has just produced.
AfterTick == frame.kind = "played"

Particles == DOMAIN positions

\* The scalars the latest played frame used: simState holds the values it smoothed, and
\* no handler has run since.
FrameScalars == Scalars(simState, params, computed, frame.delta)

HalfHeight(p) == FDiv(p.containerHeight, K(2))

\* sqrt(x^2 + z^2) <= containerRadius and -H/2 <= y <= H/2
InVessel(pos, p) ==
  /\ FLe(Hypot(pos[1], pos[3]), p.containerRadius)
  /\ FLe(FNeg(HalfHeight(p)), pos[2])
  /\ FLe(pos[2], HalfHeight(p))

FiniteVector(v) == isFinite(v[1]) /\ isFinite(v[2]) /\ isFinite(v[3])

FiniteRecord(r) == \A k \in DOMAIN r : isFinite(r[k])

(***************************************************************************)
(* Velocity and position bounds                                            *)
(***************************************************************************)
\* C1: after every played tick each of the three velocity components of every
\* particle is a number in [-10, 10], whatever the configuration and the elapsed time,
\* boundary hits and resets included.
C1_VelocityWithinLimit ==
  AfterTick =>
    \A i \in Particles : \A c \in 1..3 :
      /\ isFinite(velocities[i][c])
      /\ -MAX_VELOCITY <= velocities[i][c]
      /\ velocities[i][c] <= MAX_VELOCITY

\* A tick in which the clamp cut a velocity down to the limit.
C1_ClampEngaged ==
  /\ AfterTick
  /\ \E i \in Particles : \E c \in 1..3 : Abs(velocities[i][c]) = MAX_VELOCITY

ZeroTick ==
  /\ AfterTick
  /\ frame.delta = 0
  /\ FiniteRecord(params)
  /\ FiniteRecord(frame.sBefore)
  /\ \A i \in Particles :
       /\ InVessel(frame.before.positions[i], params)
       /\ FiniteVector(frame.before.positions[i])
       /\ FiniteVector(frame.before.velocities[i])

\* C3 (as amended): a tick of elapsed time 0 leaves every position exactly unchanged
\* and multiplies every velocity component by the drag factor 0.999.
C3_ZeroTickDampsOnly ==
  ZeroTick =>
    \A i \in Particles :
      /\ positions[i] = frame.before.positions[i]
      /\ \A c \in 1..3 : velocities[i][c] = FMul(frame.before.velocities[i][c], 9990)

\* A tick of elapsed time 0 that changed a velocity.
C3_ZeroTickChangedVelocity ==
  /\ ZeroTick
  /\ \E i \in Particles : velocities[i] # frame.before.velocities[i]

\* C3 as stated: a tick of elapsed time 0 leaves positions and velocities unchanged.
C3_ZeroTickChangesNothing ==
  ZeroTick =>
    \A i \in Particles :
      /\ positions[i] = frame.before.positions[i]
      /\ velocities[i] = frame.before.velocities[i]

(***************************************************************************)
(* Parameter smoothing                                                     *)
(***************************************************************************)
\* Each smoothed field of simState with the field of params it follows.
SmoothedFields ==
  { << "tempSurface", "tempSurface" >>,
    << "tempFluidInitial", "tempFluidInitial" >>,
    << "gravity", "gravity" >>,
    << "viscosity", "viscosityDynamic" >>,
    << "expansion", "expansionCoefficient" >>,
    << "diffusivity", "thermalDiffusivity" >>,
    << "density", "density" >> }

\* target - s for a smoothed field, now and before the latest played frame.
Gap(f) == params[f[2]] - simState[f[1]]
GapBefore(f) == params[f[2]] - frame.sBefore[f[1]]

\* The finest gap the grid lets a step of 5% close: 0.05 * gap rounds to 0 below it.
SmoothResolution == One \div 1000

Converged == \A f \in SmoothedFields : Abs(Gap(f)) < SmoothResolution

\* One played frame took s to s + 0.05 * (target - s) without widening the gap or
\* passing the target.
SmoothStep ==
  AfterTick =>
    \A f \in SmoothedFields :
      /\ simState[f[1]] =
           frame.sBefore[f[1]] + Sgn(GapBefore(f)) * RoundDiv(Abs(GapBefore(f)) * 5, 100)
      /\ Abs(Gap(f)) <= Abs(GapBefore(f))
      /\ Sgn(Gap(f)) \in { Sgn(GapBefore(f)), 0 }

\* C4: with the configuration held constant, every played tick turns each smoothed
\* field s into s + 0.05 * (target - s); the gap |target - s| never grows, the sign
\* of target - s never flips, and the gap eventually stays below the resolution of
\* the grid.
C4_SmoothingConverges == []SmoothStep /\ <>[]Converged

\* Two fields were edited away from their smoothed values and have converged.
C4_ConvergedAfterEdits ==
  /\ edits = MaxEdits
  /\ ticks > 0
  /\ params.tempSurface # DEFAULT_PARAMS.tempSurface
  /\ simState.tempSurface # DEFAULT_PARAMS.tempSurface
  /\ Converged

(***************************************************************************)
(* Instability recovery                                                    *)
(***************************************************************************)
\* Particle i after a reset: a finite position with radial distance at most
\* 0.9 * containerRadius and |y| <= containerHeight / 2, velocity (0, 0, 0) and the
\* ambient temperature.
Recovered(i) ==
  /\ FiniteVector(positions[i])
  /\ FLe(Hypot(positions[i][1], positions[i][3]), FMul(params.containerRadius, 9000))
  /\ FLe(FNeg(HalfHeight(params)), positions[i][2])
  /\ FLe(positions[i][2], HalfHeight(params))
  /\ velocities[i] = << 0, 0, 0 >>
  /\ temperatures[i] = simState.tempFluidInitial

\* C5 as stated: a particle whose position had a non-finite component when a played
\* tick started is, after the tick, recovered.
C5_NonFiniteStartIsRecovered ==
  AfterTick =>
    \A i \in Particles : ~FiniteVector(frame.before.positions[i]) => Recovered(i)

\* C5 for NaN only: a particle whose position had a NaN component when a played tick
\* started is, after the tick, recovered.
C5_NaNStartIsRecovered ==
  AfterTick =>
    \A i \in Particles :
      (\E c \in 1..3 : isNaN(frame.before.positions[i][c])) => Recovered(i)

\* A tick that started with a NaN coordinate.
C5_NaNStart ==
  /\ AfterTick
  /\ \E i \in Particles : \E c \in 1..3 : isNaN(frame.before.positions[i][c])

\* Particle i of the latest played frame as it reached the safety check.
AtSafetyCheck(i) ==
  LET b == frame.before
      T3 == ThermalPhysics(b.positions[i], b.temperatures[i], FrameScalars)
  IN  Boundaries(Move(b.positions[i], b.velocities[i], T3, FrameScalars, frame.draws[i]),
                 FrameScalars)

WasReset(i) == Unstable(AtSafetyCheck(i))

\* The latest played frame run again from the same arrays, scalars and draws, but
\* with particle i placed at a finite position.
RunWithFinite(i) ==
  ParticleLoop([frame.before EXCEPT !.positions[i] = << 0, 0, 0 >>],
               1, params.particleCount, FrameScalars, frame.draws, showHeatMap)

\* C6: when particle i is reset in a played tick, every other particle's position,
\* velocity and temperature after the tick are what they would be had particle i's
\* position been finite; the tick has written every one of the N particles and the
\* frame callback still passes its guard, so the next tick runs.
C6_RecoveryIsLocal ==
  AfterTick =>
    \A i \in Particles :
      WasReset(i) =>
        /\ \A j \in Particles \ {i} :
             /\ positions[j] = RunWithFinite(i).positions[j]
             /\ velocities[j] = RunWithFinite(i).velocities[j]
             /\ temperatures[j] = RunWithFinite(i).temperatures[j]
        /\ \A j \in 1..params.particleCount : colors[j] # << 0, 0, 0 >>
        /\ Playing

\* A tick that reset one particle and not the other.
C6_OneOfTwoReset ==
  /\ AfterTick
  /\ \E i \in Particles : \E j \in Particles : WasReset(i) /\ ~WasReset(j)

(***************************************************************************)
(* The ensemble                                                            *)
(***************************************************************************)
\* The latest handler mounted the particle system or changed particleCount,
\* containerRadius or containerHeight.
JustCreated == frame.kind = "created"

\* sqrt(x^2 + z^2) <= 0.9 * containerRadius and |y| <= containerHeight / 2
InitialBounds ==
  \A i \in Particles :
    /\ FLe(Hypot(positions[i][1], positions[i][3]), FMul(params.containerRadius, 9000))
    /\ FLe(FNeg(HalfHeight(params)), positions[i][2])
    /\ FLe(positions[i][2], HalfHeight(params))

\* 0.9 * containerRadius >= 0.001, containerHeight > 0 and particleCount >= 1
RoomForFloor ==
  /\ FLe(10, FMul(params.containerRadius, 9000))
  /\ FGt(params.containerHeight, 0)
  /\ params.particleCount >= 1

\* containerRadius > 0, containerHeight > 0 and particleCount >= 1
PositiveGeometry ==
  /\ FGt(params.containerRadius, 0)
  /\ FGt(params.containerHeight, 0)
  /\ params.particleCount >= 1

\* C7 (as amended): immediately after initialization, at mount and at every
\* re-creation, every particle satisfies sqrt(x^2 + z^2) <= 0.9 * containerRadius and
\* |y| <= containerHeight / 2, for every configuration with
\* containerRadius >= 0.001 / 0.9, containerHeight > 0 and particleCount >= 1.
C7_InitialPositionBounds == (JustCreated /\ RoomForFloor) => InitialBounds

\* A fresh ensemble with a particle at radial distance 0.9 * containerRadius.
C7_ParticleAtOuterRadius ==
  /\ JustCreated
  /\ RoomForFloor
  /\ \E i \in Particles :
       Hypot(positions[i][1], positions[i][3]) = FMul(params.containerRadius, 9000)

\* C7 as stated: the same for every containerRadius > 0.
C7_InitialPositionBoundsAnyRadius == (JustCreated /\ PositiveGeometry) => InitialBounds

ArraysSized ==
  /\ DOMAIN positions = 1..params.particleCount
  /\ DOMAIN velocities = 1..params.particleCount
  /\ DOMAIN temperatures = 1..params.particleCount
  /\ DOMAIN colors = 1..params.particleCount
  /\ DOMAIN state = 1..params.particleCount
  /\ DOMAIN meta = 1..params.particleCount

\* Velocity (0, 0, 0), the configured initial fluid temperature and variance in
\* [0.8, 1.2] for every particle.
FreshEnsemble ==
  \A i \in 1..params.particleCount :
    /\ velocities[i] = << 0, 0, 0 >>
    /\ temperatures[i] = params.tempFluidInitial
    /\ FLe(8000, meta[i]) /\ FLe(meta[i], 12000)

\* Radial distance >= 0.001 for every particle.
OffAxis == \A i \in 1..params.particleCount : FLe(10, Hypot(positions[i][1], positions[i][3]))

\* A tick left the array lengths as they were and wrote every one of the N particles
\* (no colour is left at the (0, 0, 0) the arrays are created with).
TickKeepsEnsemble ==
  AfterTick =>
    /\ DOMAIN positions = DOMAIN frame.before.positions
    /\ \A i \in 1..params.particleCount : colors[i] # << 0, 0, 0 >>

ThermalTemperature(i) ==
  ThermalPhysics(frame.before.positions[i], frame.before.temperatures[i], FrameScalars)

\* The vertical velocity section C gives particle i for the vertical force f.
VerticalVelocity(i, f) ==
  LET sc == FrameScalars
      fy == FAdd(f, Jitter(ThermalTemperature(i), frame.draws[i].jy))
      vy == FAdd(frame.before.velocities[i][2], FDiv(FMul(fy, sc.dt), sc.inertiaFactor))
  IN  FMax(-MAX_VELOCITY, FMin(MAX_VELOCITY, FMul(vy, sc.dragFactor)))

\* v, or v after a bounce, two bounces or a reset.
AfterBoundaries(v) == { v, FMul(v, -4000), FMul(FMul(v, -4000), -4000), 0 }

\* C9: in every played tick the stored phase of a particle is gas exactly when its
\* temperature at the force step exceeds boilingPoint; a gas particle gets the
\* vertical force gravity * 2 without buoyancy and the steam colour, a liquid one gets
\* buoyancy gravity * expansion * (T - avgT) * 250; the phase is decided anew in every
\* tick.
C9_PhaseFollowsTemperature ==
  AfterTick =>
    \A i \in Particles :
      LET sc == FrameScalars
          T3 == ThermalTemperature(i)
          rise == FMul(sc.gravity, K(2))
          lift == FMul(FMul(FMul(FMul(sc.gravity, sc.expansion), FSub(T3, sc.avgT)),
                            K(250)), 100)
      IN  IF FGt(T3, params.boilingPoint)
          THEN /\ state[i] = 1
               /\ colors[i] = _cGas
               /\ velocities[i][2] \in AfterBoundaries(VerticalVelocity(i, rise))
          ELSE /\ state[i] = 0
               /\ velocities[i][2] \in AfterBoundaries(VerticalVelocity(i, lift))

\* A particle that was gas in the tick before and is liquid in this one.
C9_GasThenLiquid ==
  /\ AfterTick
  /\ \E i \in Particles : frame.before.state[i] = 1 /\ state[i] = 0

(***************************************************************************)
(* The example scenario                                                    *)
(***************************************************************************)
\* C10: from the example scenario (N = 3, every particle at y = -0.099 with T = 293
\* and velocity 0, dt = 0.016), one tick leaves every particle with a temperature
\* above 293 and a vertical velocity above 0, for every jitter draw and radial
\* position, with the convection gate off as the scenario has it and also with it on.
C10_ExampleHeatsAndRises ==
  (AfterTick /\ ticks = 1) =>
    \A i \in Particles :
      /\ frame.before.positions[i][2] = -990
      /\ frame.before.temperatures[i] = K(293)
      /\ FGt(temperatures[i], K(293))
      /\ FGt(velocities[i][2], 0)

\* The first tick of the scenario with the convection gate off and a particle at
\* each of the three radial positions.
C10_FirstTickConvectionOff ==
  /\ AfterTick
  /\ ticks = 1
  /\ ~CanConvect(computed)
  /\ params.particleCount = ExampleCount
  /\ frame.delta = 160
  /\ \E i \in Particles :
       Hypot(frame.before.positions[i][1], frame.before.positions[i][3]) = 10
  /\ \E i \in Particles :
       Hypot(frame.before.positions[i][1], frame.before.positions[i][3]) = 900
(***************************************************************************)
(* Configuration files                                                     *)
(***************************************************************************)
\* The step is a run of handleLoadSimulation.
LoadStep == load'.serial # load.serial

\* The file has no containerRadius or no gravity.
Lacks(file) ==
  \/ file.kind # "object"
  \/ "containerRadius" \notin DOMAIN file.fields
  \/ "gravity" \notin DOMAIN file.fields

\* The step leaves the configuration, the play state, the pending timers and the
\* particle system as they were.
NothingApplied ==
  UNCHANGED << params, computed, isPlaying, timers, simState, positions, velocities,
               temperatures, state, colors, meta >>

\* C11: a load of a file that lacks containerRadius or lacks gravity leaves the
\* configuration and the play state exactly as they were, applies no field, and alerts
\* the user.
C11_LackingFileRejected ==
  [][(LoadStep /\ Lacks(load'.file)) => (NothingApplied /\ load'.alert # "none")]_vars

\* C11 for the files that have a text: the same, and the alert is "Invalid configuration
\* file." for a JSON object and "Failed to load file." for null and for what is not JSON.
C11_NonEmptyLackingFileRejected ==
  [][(LoadStep /\ Lacks(load'.file) /\ load'.file.kind # "empty") =>
       /\ NothingApplied
       /\ load'.alert = IF load'.file.kind = "object"
                        THEN "Invalid configuration file." ELSE "Failed to load file."]_vars

\* An object without gravity has been loaded after an edit, and the edit stands.
C11_ObjectWithoutGravityLoaded ==
  /\ load.kind = "invalid"
  /\ "gravity" \notin DOMAIN load.file.fields
  /\ "containerRadius" \in DOMAIN load.file.fields
  /\ params = load.params
  /\ params # DEFAULT_PARAMS

\* The empty file has been loaded: nothing is applied and nothing is said.
C11_EmptyFileIgnored == load.kind = "ignored" /\ load.alert = "none" /\ params = load.params

\* The ranges of the sliders of Sidebar.tsx for the fields of the model.
SliderRanges ==
  [ containerRadius |-> << 100, One >>,
    containerHeight |-> << 500, 2 * One >>,
    tempSurface |-> << K(200), K(1200) >>,
    tempFluidInitial |-> << K(200), K(500) >>,
    boilingPoint |-> << K(100), K(800) >>,
    density |-> << K(1), K(5000) >>,
    expansionCoefficient |-> << 10, 100000 >>,
    viscosityDynamic |-> << 10, 10000000 >>,
    thermalDiffusivity |-> << 1, 1000000 >>,
    gravity |-> << 0, K(50) >>,
    particleCount |-> << 1, MaxParticles >>,
    densityEffect |-> << 1000, K(10) >> ]

InSliderRange(p) ==
  \A k \in DOMAIN SliderRanges :
    isFinite(p[k]) /\ SliderRanges[k][1] <= p[k] /\ p[k] <= SliderRanges[k][2]

\* The step loads the file that was saved from configuration p.
LoadsSaved(p) == LoadStep /\ Saved(p) \in downloads /\ load'.file = Stringify(p)

\* C12: for every configuration within the slider ranges (gravity from 0), a load of
\* the file saved from it is accepted and leaves the configuration equal to it.
C12_SaveLoadRoundTrip ==
  [][\A d \in downloads :
       (LoadsSaved(d.from) /\ InSliderRange(d.from)) =>
         (load'.kind = "accepted" /\ params' = d.from)]_vars

\* The round trip for the configurations within the slider ranges whose gravity is
\* not 0.
C12_RoundTripWithGravity ==
  [][\A d \in downloads :
       (LoadsSaved(d.from) /\ InSliderRange(d.from) /\ d.from.gravity # 0) =>
         (load'.kind = "accepted" /\ params' = d.from)]_vars

\* A saved configuration has been loaded over a different one and is in force.
C12_SavedConfigurationRestored ==
  /\ load.kind = "accepted"
  /\ Saved(params) \in downloads
  /\ load.file = Stringify(params)
  /\ load.params # params
  /\ InSliderRange(params)

\* The file saved with gravity 0 has been refused.
C12_ZeroGravityFileRefused ==
  /\ load.kind = "invalid"
  /\ load.file \in SavedFiles
  /\ load.file.fields.gravity = 0
  /\ InSliderRange(load.params)
  /\ load.file = Stringify(load.params)

(***************************************************************************)
(* The frame callback                                                      *)
(***************************************************************************)
\* The latest thing that ran was a frame callback.
AfterFrame == frame.kind \in { "played", "paused" }

\* C13: a frame callback that runs while the simulation is paused leaves positions,
\* velocities, temperatures, phases, colours, the smoothed parameters and the running
\* average temperature as they were.
C13_PausedFrameChangesNothing ==
  (AfterFrame /\ ~isPlaying) => (Arrays = frame.before /\ simState = frame.sBefore)

\* A frame has run while paused, after a tick and after an edit of the surface
\* temperature that the smoothed value has not followed.
C13_PausedAfterEdit ==
  /\ frame.kind = "paused"
  /\ ~isPlaying
  /\ ticks > 0
  /\ params.tempSurface # DEFAULT_PARAMS.tempSurface
  /\ simState.tempSurface = DEFAULT_PARAMS.tempSurface

\* The particle loop run over the particles in the order given.
RECURSIVE LoopInOrder(_, _, _, _, _, _, _)
LoopInOrder(arr, order, k, count, sc, ds, heatMap) ==
  IF k > count THEN arr
  ELSE LoopInOrder(UpdateParticle(arr, order[k], sc, ds[order[k]], heatMap),
                   order, k + 1, count, sc, ds, heatMap)

\* The arrays the latest tick would have left, had it visited the particles in that
\* order with the same draws for each particle.
TickInOrder(order) ==
  LoopInOrder(frame.before, order, 1, params.particleCount, FrameScalars, frame.draws,
              showHeatMap)

\* C14: the running average of a tick is taken from the temperatures as they were before
\* the tick, and the arrays after the tick are what the loop gives in every order of
\* the particles.
C14_OrderDoesNotMatter ==
  AfterTick =>
    /\ simState.avgSystemTemp =
         Lerp(frame.sBefore.avgSystemTemp,
              FrameAvgT(frame.before.temperatures, params.particleCount), 1000)
    /\ \A order \in Permutations(1..params.particleCount) : Arrays = TickInOrder(order)

\* A tick of two particles in which both moved and the temperatures changed.
C14_TwoParticlesMoved ==
  /\ AfterTick
  /\ params.particleCount = 2
  /\ \A i \in 1..2 : positions[i] # frame.before.positions[i]
  /\ temperatures # frame.before.temperatures
  /\ FiniteVector(positions[1]) /\ FiniteVector(positions[2])

(***************************************************************************)
(* Colours                                                                 *)
(***************************************************************************)
\* The configuration, the smoothed parameters and what the tick wrote for particle i
\* are all numbers.
FiniteParticle(i) ==
  /\ FiniteRecord(params) /\ FiniteRecord(simState)
  /\ FiniteVector(positions[i]) /\ FiniteVector(velocities[i]) /\ isFinite(temperatures[i])

InUnitInterval(c) == FLe(0, c) /\ FLe(c, One)

AfterPositionUpdate(i) ==
  Move(frame.before.positions[i], frame.before.velocities[i], ThermalTemperature(i),
       FrameScalars, frame.draws[i])

\* The largest distance along one axis between where particle i started the tick and
\* where the position update put it.
StepAlongAxes(i) ==
  { Abs(AfterPositionUpdate(i).pos[c] - frame.before.positions[i][c]) : c \in 1..3 }

\* C16: the step of a tick is min(elapsedSeconds, 0.05), so it is never above 0.05 s,
\* and the position update moves a particle at most 0.5 m along each axis.
C16_StepIsCapped ==
  AfterTick =>
    /\ FrameScalars.dt = (IF frame.delta < 500 THEN frame.delta ELSE 500)
    /\ FLe(FrameScalars.dt, 500)
    /\ \A i \in Particles :
         (FiniteVector(frame.before.positions[i]) /\ FiniteVector(AfterPositionUpdate(i).pos))
           => \A d \in StepAlongAxes(i) : d <= 5000

\* A tick whose elapsed time was above the cap and in which a particle at the velocity
\* limit moved the full 0.5 m.
C16_FullStepTaken ==
  /\ AfterTick
  /\ frame.delta > 500
  /\ \E i \in Particles :
       /\ FiniteVector(frame.before.positions[i])
       /\ FiniteVector(AfterPositionUpdate(i).pos)
       /\ 5000 \in StepAlongAxes(i)

(***************************************************************************)
(* Inertia and drag                                                        *)
(***************************************************************************)
\* max(0.01, max(1, smoothedDensity) * 0.001 * densityEffect)
InertiaOf(density, densityEffect) ==
  FMax(100, FMul(FMul(FMax(One, density), 10), densityEffect))

\* C17: for every smoothed density and every densityEffect >= 0, the tick uses
\* inertiaFactor = max(0.01, max(1, smoothedDensity) * 0.001 * densityEffect), which is
\* at least 0.01.
C17_InertiaFactor ==
  (AfterTick /\ FLe(0, params.densityEffect)) =>
    /\ FrameScalars.inertiaFactor = InertiaOf(simState.density, params.densityEffect)
    /\ FLe(100, FrameScalars.inertiaFactor)

\* C17 for the multipliers above 0.
C17_InertiaFactorPositiveEffect ==
  (AfterTick /\ FGt(params.densityEffect, 0)) =>
    /\ FrameScalars.inertiaFactor = InertiaOf(simState.density, params.densityEffect)
    /\ FLe(100, FrameScalars.inertiaFactor)

\* The inertia factor of every tick is at least 0.01, also for the multiplier 0, for
\* which it is the one of the multiplier 1.
C17_InertiaFactorFloor ==
  AfterTick =>
    /\ FLe(100, FrameScalars.inertiaFactor)
    /\ params.densityEffect = 0 =>
         FrameScalars.inertiaFactor = InertiaOf(simState.density, One)

\* A tick under densityEffect 0 and the density of water: the inertia factor is 0.998.
C17_ZeroEffectTick ==
  AfterTick /\ params.densityEffect = 0 /\ FrameScalars.inertiaFactor = 9980

\* A tick in which the floor 0.01 applied.
C17_FloorApplied ==
  AfterTick /\ params.densityEffect = 1000 /\ FrameScalars.inertiaFactor = 100

\* Component c of the velocity of particle i in the latest played frame after the
\* Euler step and before the drag.
Integrated(i, c) ==
  FAdd(frame.before.velocities[i][c],
       FDiv(FMul(Forces(frame.before.positions[i], ThermalTemperature(i), FrameScalars,
                        frame.draws[i])[c],
                 FrameScalars.dt),
            FrameScalars.inertiaFactor))

\* w is v damped: of the sign of v or 0, and at most 0.999 of v in size.
Damped(v, w) == Sgn(w) \in { 0, Sgn(v) } /\ FLe(Abs(w), FMul(Abs(v), 9990))

\* C18: in every tick the drag factor lies in [0, 0.999], and the drag step gives every
\* velocity component a value of the same sign, or 0, and of at most 0.999 of its size.
C18_DragDamps ==
  AfterTick =>
    /\ FLe(0, FrameScalars.dragFactor) /\ FLe(FrameScalars.dragFactor, 9990)
    /\ \A i \in Particles : \A c \in 1..3 :
         isFinite(Integrated(i, c)) =>
           Damped(Integrated(i, c), ApplyDrag(Integrated(i, c), FrameScalars))

\* A tick under the largest viscosity, in which the drag factor was 0 and stopped a
\* particle that the forces had set in motion.
C18_DragStopsParticle ==
  /\ AfterTick
  /\ FrameScalars.dragFactor = 0
  /\ \E i \in Particles : \E c \in 1..3 :
       isFinite(Integrated(i, c)) /\ Integrated(i, c) # 0

(***************************************************************************)
(* Boundary resolution                                                     *)
(***************************************************************************)
CrossedFloor(k, sc) == FLt(k.pos[2], FNeg(sc.halfH))
CrossedCeiling(k, sc) == FGt(k.pos[2], sc.halfH)
CrossedWall(k, sc) == FGt(Hypot(k.pos[1], k.pos[3]), sc.radius)

\* r is k put on the circle of radius R along its own ray from the axis; the grid
\* point is within one grid step of the circle.
Reprojected(k, r, R) ==
  /\ FLe(Hypot(r.pos[1], r.pos[3]), R) /\ FLe(R - 1, Hypot(r.pos[1], r.pos[3]))
  /\ \A c \in { 1, 3 } : Sgn(r.pos[c]) \in { 0, Sgn(k.pos[c]) } /\ Abs(r.pos[c]) <= Abs(k.pos[c])

\* What the claim says of the boundary step that took k to r.
BoundaryRules(k, r, sc) ==
  /\ CrossedFloor(k, sc) =>
       /\ r.pos[2] = FAdd(FNeg(sc.halfH), 10)
       /\ r.vel[2] = FMul(k.vel[2], -4000)
       /\ r.T = Lerp(k.T, sc.tempSurface, 2000)
  /\ CrossedCeiling(k, sc) =>
       /\ r.pos[2] = FSub(sc.halfH, 10)
       /\ r.vel[2] = FMul(k.vel[2], -4000)
       /\ r.T = k.T
  /\ (CrossedWall(k, sc) /\ isFinite(k.pos[1]) /\ isFinite(k.pos[3])) =>
       /\ Reprojected(k, r, sc.radius)
       /\ r.vel[1] = FMul(k.vel[1], -5000)
       /\ r.vel[3] = FMul(k.vel[3], -5000)
  /\ ~(CrossedFloor(k, sc) \/ CrossedCeiling(k, sc)) =>
       r.pos[2] = k.pos[2] /\ r.vel[2] = k.vel[2] /\ r.T = k.T
  /\ ~CrossedWall(k, sc) =>
       /\ r.pos[1] = k.pos[1] /\ r.pos[3] = k.pos[3]
       /\ r.vel[1] = k.vel[1] /\ r.vel[3] = k.vel[3]

\* C19 (as amended): for containerHeight >= 0.001, the boundary step of every tick
\* snaps a floor crossing to -H/2 + 0.001 with vy * -0.4 and T moved 20% toward the
\* smoothed surface temperature, snaps a ceiling crossing to H/2 - 0.001 with vy * -0.4
\* and T unchanged, reprojects a wall crossing to radius R on its ray with vx and vz
\* * -0.5, and touches nothing else.
C19_BoundaryRules ==
  (AfterTick /\ FLe(10, params.containerHeight)) =>
    \A i \in Particles : BoundaryRules(AfterPositionUpdate(i), AtSafetyCheck(i), FrameScalars)

\* C19 as stated: the same for every containerHeight > 0.
C19_BoundaryRulesAnyHeight ==
  (AfterTick /\ FGt(params.containerHeight, 0)) =>
    \A i \in Particles : BoundaryRules(AfterPositionUpdate(i), AtSafetyCheck(i), FrameScalars)

\* A tick in which a particle crossed the floor, bounced, and was warmed by it.
C19_FloorCrossed ==
  /\ AfterTick /\ FLe(10, params.containerHeight)
  /\ \E i \in Particles :
       /\ CrossedFloor(AfterPositionUpdate(i), FrameScalars)
       /\ AfterPositionUpdate(i).vel[2] # 0
       /\ FGt(AtSafetyCheck(i).T, AfterPositionUpdate(i).T)

\* A tick in which a particle crossed the ceiling.
C19_CeilingCrossed ==
  /\ AfterTick /\ FLe(10, params.containerHeight)
  /\ \E i \in Particles : CrossedCeiling(AfterPositionUpdate(i), FrameScalars)

(***************************************************************************)
(* Circulation forces                                                      *)
(***************************************************************************)
\* Where particle i started the latest played frame, and its distance from the axis.
StartOf(i) == frame.before.positions[i]
StartRadius(i) == Hypot(StartOf(i)[1], StartOf(i)[3])

\* The forces on particle i in the latest played frame.
ForcesOn(i) == Forces(StartOf(i), ThermalTemperature(i), FrameScalars, frame.draws[i])

\* Particle i started the frame at a finite position with a finite temperature, under
\* a configuration and smoothed parameters that are numbers.
FiniteStart(i) ==
  /\ FiniteRecord(params) /\ FiniteRecord(simState)
  /\ FiniteVector(StartOf(i)) /\ isFinite(ThermalTemperature(i))

\* The horizontal force on particle i was the jitter term alone.
JitterOnly(i) ==
  /\ ForcesOn(i)[1] = Jitter(ThermalTemperature(i), frame.draws[i].jx)
  /\ ForcesOn(i)[3] = Jitter(ThermalTemperature(i), frame.draws[i].jz)

\* Particle i was where the heuristic pushes: warmer than the average in the top fifth
\* of the vessel, or colder in the bottom fifth.
InCirculationZone(i) ==
  LET tempDiff == FSub(ThermalTemperature(i), FrameScalars.avgT)
      yNorm == FDiv(FAdd(StartOf(i)[2], FrameScalars.halfH), params.containerHeight)
  IN  \/ FGt(tempDiff, 0) /\ FGt(yNorm, 8000)
      \/ FLt(tempDiff, 0) /\ FLt(yNorm, 2000)

\* C20: in every tick, for every particle at a finite position, the three force
\* components are finite, also at r = 0, and the horizontal force is the jitter term
\* alone unless canConvect holds and r > 0.001.
C20_CirculationGuarded ==
  AfterTick =>
    \A i \in Particles :
      FiniteStart(i) =>
        /\ FiniteVector(ForcesOn(i))
        /\ (~FrameScalars.canConvect \/ FLe(StartRadius(i), 10)) => JitterOnly(i)

\* A tick with the gate open in which one particle was on the axis and another off it,
\* both where the heuristic pushes, and only the one off the axis was pushed.
C20_OnAxisInZone ==
  /\ AfterTick
  /\ FrameScalars.canConvect
  /\ \E i, j \in Particles :
       /\ FiniteStart(i) /\ StartRadius(i) = 0 /\ InCirculationZone(i) /\ JitterOnly(i)
       /\ FiniteStart(j) /\ FGt(StartRadius(j), 10) /\ InCirculationZone(j) /\ ~JitterOnly(j)

\* A tick with the gate closed in which a particle off the axis was where the
\* heuristic pushes.
C20_GateClosedInZone ==
  /\ AfterTick
  /\ ~FrameScalars.canConvect
  /\ \E j \in Particles : FiniteStart(j) /\ FGt(StartRadius(j), 10) /\ InCirculationZone(j)

(***************************************************************************)
(* Colour selection                                                        *)
(***************************************************************************)
\* Particle i, as the latest tick left it, is within 0.015 of the floor and more than
\* 5 K above the smoothed ambient temperature.
ConductingNow(i) ==
  /\ FLt(FAdd(positions[i][2], FrameScalars.halfH), 150)
  /\ FGt(temperatures[i], FAdd(simState.tempFluidInitial, K(5)))

\* clamp((T - ambient) / max(1, surface - ambient), 0, 1) for particle i
TNormNow(i) ==
  FMax(0, FMin(One, FDiv(FSub(temperatures[i], simState.tempFluidInitial),
                         FMax(One, FSub(simState.tempSurface, simState.tempFluidInitial)))))

\* The five stops of the gradient, and the colour a quarter-segment gives to t in [0, 1].
Stops == << _cBlue, _cCyan, _cGreen, _cYellow, _cRed >>

Segment(t) == IF t \div 2500 > 3 THEN 3 ELSE t \div 2500

FourStop(t) ==
  LerpColors(Stops[Segment(t) + 1], Stops[Segment(t) + 2],
             FMul(FSub(t, 2500 * Segment(t)), K(4)))

\* The speed-based colour of particle i, blended half way to the glow when conducting.
SpeedColour(i) ==
  IF ConductingNow(i)
  THEN LerpColors(Watery(Bright(velocities[i])), _cGlow, One \div 2)
  ELSE Watery(Bright(velocities[i]))

\* The colour the precedence gas, glow, gradient, speed gives particle i.
ByPrecedence(i) ==
  CASE state[i] = 1 -> _cGas
    [] state[i] # 1 /\ showHeatMap /\ ConductingNow(i) -> _cGlow
    [] state[i] # 1 /\ showHeatMap /\ ~ConductingNow(i) -> FourStop(TNormNow(i))
    [] OTHER -> SpeedColour(i)

\* Two colours differ by at most d grid steps in every channel.
Near(c1, c2, d) == \A c \in 1..3 : Abs(c1[c] - c2[c]) <= d

\* The gradient starts at blue, ends at red, and meets the stops at 0.25, 0.5 and 0.75
\* from both sides.
GradientContinuous ==
  /\ Gradient(0) = _cBlue
  /\ Gradient(One) = _cRed
  /\ \A k \in 1..3 :
       /\ Gradient(2500 * k) = Stops[k + 1]
       /\ Near(Gradient(2500 * k - 1), Stops[k + 1], 4)
       /\ Near(Gradient(2500 * k + 1), Stops[k + 1], 4)

\* The latest tick run again in the other display mode.
InOtherMode ==
  ParticleLoop(frame.before, 1, params.particleCount, FrameScalars, frame.draws,
               ~showHeatMap)

\* C21: after every tick the colour of every finite particle is the one the precedence
\* gas, glow, gradient, speed selects; the gradient runs from blue to red and is
\* continuous at its stops; and the positions, velocities, temperatures and phases
\* the tick left are the same in either display mode.
C21_ColourPrecedence ==
  AfterTick =>
    /\ \A i \in Particles : FiniteParticle(i) => colors[i] = ByPrecedence(i)
    /\ GradientContinuous
    /\ InOtherMode.positions = positions
    /\ InOtherMode.velocities = velocities
    /\ InOtherMode.temperatures = temperatures
    /\ InOtherMode.state = state

\* A tick in heat-map mode that left a gas particle where a liquid one would glow, in
\* the steam colour.
C21_GasOverGlow ==
  /\ AfterTick
  /\ showHeatMap
  /\ \E i \in Particles :
       FiniteParticle(i) /\ state[i] = 1 /\ ConductingNow(i) /\ colors[i] = _cGas

\* A tick in speed mode that left a conducting liquid particle.
C21_SpeedBlended ==
  /\ AfterTick
  /\ ~showHeatMap
  /\ \E i \in Particles : FiniteParticle(i) /\ state[i] = 0 /\ ConductingNow(i)

(***************************************************************************)
(* The convection gate and the displayed regime                            *)
(***************************************************************************)
Convective(p) == FlowRegime(p) \in { "Laminar Convection", "Turbulent Convection" }

\* C22 as stated: in every tick the gate is closed when the displayed regime is
\* Conductive and open when it is Laminar or Turbulent Convection.
C22_GateAgreesWithRegime ==
  AfterTick =>
    /\ FlowRegime(params) = "Conductive" => ~FrameScalars.canConvect
    /\ Convective(params) => FrameScalars.canConvect

\* C22, the half that holds: in every tick under a Laminar or Turbulent Convection
\* regime the gate is open.
C22_ConvectiveRegimeOpensGate ==
  AfterTick => (Convective(params) => FrameScalars.canConvect)

\* C22, below the gate's own threshold: in every tick under a Conductive regime whose
\* rayleigh is at most 1000 the gate is closed.
C22_GateClosedUpTo1000 ==
  AfterTick =>
    (FlowRegime(params) = "Conductive" /\ ~RayleighExceeds(params, 1000)
       => ~FrameScalars.canConvect)

\* A tick under a Laminar Convection regime, and one under a Conductive regime with
\* the gate closed.
C22_LaminarTick == AfterTick /\ FlowRegime(params) = "Laminar Convection"

C22_ConductiveTickGateClosed ==
  AfterTick /\ FlowRegime(params) = "Conductive" /\ ~FrameScalars.canConvect

(***************************************************************************)
(* Thermal steps                                                           *)
(***************************************************************************)
\* x lies between a and b, ends included.
Between(a, x, b) == (FLe(a, x) /\ FLe(x, b)) \/ (FLe(b, x) /\ FLe(x, a))

\* The temperature of particle i at the start of the latest tick, after the heat
\* source and after the cooling.
StartTemperature(i) == frame.before.temperatures[i]
ConductedTemperature(i) == Conduction(StartOf(i), StartTemperature(i), FrameScalars)
CooledTemperature(i) == Cooling(StartOf(i), ConductedTemperature(i), FrameScalars)

\* The factors of the three lerps, with the contact of a particle on the floor.
ConductionFactor == FMul(FMul(FMul(FrameScalars.thermalRate, K(20)), One), FrameScalars.dt)
CoolingFactor == FMul(FMul(FrameScalars.thermalRate, K(5)), FrameScalars.dt)
MixingFactor == FMul(FMul(FrameScalars.thermalRate, 1000), FrameScalars.dt)

\* The three factors are in [0, 1] and every thermal step of particle i ended between
\* where it started and its target.
NoOvershoot(i) ==
  /\ InUnitInterval(ConductionFactor)
  /\ InUnitInterval(CoolingFactor)
  /\ InUnitInterval(MixingFactor)
  /\ Between(StartTemperature(i), ConductedTemperature(i), FrameScalars.tempSurface)
  /\ Between(ConductedTemperature(i), CooledTemperature(i), FrameScalars.tempFluidInitial)
  /\ Between(CooledTemperature(i), ThermalTemperature(i), FrameScalars.avgT)

FiniteTemperatures(i) ==
  /\ FiniteRecord(params) /\ FiniteRecord(simState)
  /\ FiniteVector(StartOf(i)) /\ isFinite(StartTemperature(i))

\* C23 as stated: in every tick under a configuration within the slider ranges the
\* three lerp factors are in [0, 1] and no thermal step overshoots its target.
C23_NoOvershoot ==
  AfterTick => \A i \in Particles : FiniteTemperatures(i) => NoOvershoot(i)

\* C23 for a diffusivity of at most 1.25e-5: the factors are in [0, 1] and no thermal
\* step overshoots.
C23_NoOvershootSmallDiffusivity ==
  AfterTick =>
    \A i \in Particles :
      FiniteTemperatures(i) /\ FLe(simState.diffusivity, 12500) => NoOvershoot(i)

\* A tick at diffusivity 1.25e-5 and dt = 0.05, where the conduction factor is 1, that
\* heated a particle near the floor.
C23_LargestStableStep ==
  /\ AfterTick
  /\ simState.diffusivity = 12500
  /\ ConductionFactor = One
  /\ \E i \in Particles :
       FiniteTemperatures(i) /\ ConductedTemperature(i) # StartTemperature(i)

(***************************************************************************)
(* Bounces                                                                 *)
(***************************************************************************)
\* Particle i started the latest tick between the floor and the ceiling.
StartedBetweenPlates(i) ==
  /\ FLe(FNeg(FrameScalars.halfH), StartOf(i)[2])
  /\ FLe(StartOf(i)[2], FrameScalars.halfH)

\* The floor branch, and the ceiling branch after it, fired for particle i.
FloorFired(i) == CrossedFloor(AfterPositionUpdate(i), FrameScalars)
CeilingFired(i) == CrossedCeiling(Floor(AfterPositionUpdate(i), FrameScalars), FrameScalars)

\* C24: in every tick under a containerHeight of at least 0.05 every particle starts
\* between the floor and the ceiling, a particle for which the floor branch fired ends
\* the tick with vy >= 0, and one for which the ceiling branch fired with vy <= 0.
C24_BounceSendsBack ==
  (AfterTick /\ FLe(500, params.containerHeight)) =>
    \A i \in Particles :
      /\ StartedBetweenPlates(i)
      /\ FloorFired(i) => velocities[i][2] >= 0
      /\ CeilingFired(i) => velocities[i][2] <= 0

\* A tick in which a falling particle crossed the floor and left it rising.
C24_FloorBounce ==
  /\ AfterTick /\ FLe(500, params.containerHeight)
  /\ \E i \in Particles :
       FloorFired(i) /\ AfterPositionUpdate(i).vel[2] < 0 /\ velocities[i][2] > 0

\* A tick in which a rising particle crossed the ceiling and left it falling.
C24_CeilingBounce ==
  /\ AfterTick /\ FLe(500, params.containerHeight)
  /\ \E i \in Particles :
       CeilingFired(i) /\ AfterPositionUpdate(i).vel[2] > 0 /\ velocities[i][2] < 0

(***************************************************************************)
(* NaN in the smoothed parameters                                          *)
(***************************************************************************)
\* The configuration field each smoothed field follows.
TargetOf ==
  [ tempSurface |-> "tempSurface", tempFluidInitial |-> "tempFluidInitial",
    gravity |-> "gravity", viscosity |-> "viscosityDynamic",
    expansion |-> "expansionCoefficient", diffusivity |-> "thermalDiffusivity",
    density |-> "density" ]

\* The step is a played tick; the step remounts the particle system (a new particle
\* count, or Reset, which alone starts a timer without reading a file).
IsTick == ticks' = ticks + 1
IsReset == timers' = timers + 1 /\ load' = load
IsRemount == params'.particleCount # params.particleCount \/ IsReset

\* The mean of the temperatures the tick starts from.
MeanTemperature == FrameAvgT(temperatures, params.particleCount)

\* C25: a tick under a NaN target leaves the smoothed field NaN, a tick from a NaN mean
\* temperature leaves the running average NaN, and a smoothed field or running average
\* that is NaN stays NaN over every step that is not a remount, also once the
\* configuration is finite again; a remount under a finite configuration leaves all of
\* them finite.
C25_NaNAbsorbing ==
  [][ /\ \A f \in DOMAIN TargetOf :
           /\ (IsTick /\ isNaN(params[TargetOf[f]])) => isNaN(simState'[f])
           /\ (isNaN(simState[f]) /\ ~IsRemount) => isNaN(simState'[f])
      /\ (IsTick /\ isNaN(MeanTemperature)) => isNaN(simState'.avgSystemTemp)
      /\ (isNaN(simState.avgSystemTemp) /\ ~IsRemount) => isNaN(simState'.avgSystemTemp)
      /\ (IsRemount /\ FiniteRecord(params')) => FiniteRecord(simState')
    ]_vars

\* After a tick under a finite configuration the smoothed surface temperature is still
\* NaN: the configuration was NaN in an earlier tick and has been made finite again.
C25_StillNaNAfterRepair ==
  /\ AfterTick
  /\ FiniteRecord(params)
  /\ isNaN(simState.tempSurface)
  /\ isNaN(frame.sBefore.tempSurface)

\* A tick that started from a NaN mean temperature and a finite running average, and
\* left the running average NaN.
C25_AverageTurnsNaN ==
  /\ AfterTick
  /\ isNaN(FrameAvgT(frame.before.temperatures, params.particleCount))
  /\ isFinite(frame.sBefore.avgSystemTemp)
  /\ isNaN(simState.avgSystemTemp)

(***************************************************************************)
(* The lifetime of the smoothed parameters                                 *)
(***************************************************************************)
\* The smoothed parameters and the running average after the step are the values of
\* the configuration after the step.
FreshlyInitialised ==
  /\ \A f \in DOMAIN TargetOf : simState'[f] = params'[TargetOf[f]]
  /\ simState'.avgSystemTemp = params'.tempFluidInitial

\* The step changes the radius or the height of the vessel.
GeometryChanges ==
  \/ params'.containerRadius # params.containerRadius
  \/ params'.containerHeight # params.containerHeight

\* C27: a step that changes the particle count or is a Reset leaves the smoothed
\* parameters and the running average at the configuration of that moment; a step that
\* changes only the geometry leaves them as they were and every temperature at the
\* configured initial fluid temperature; and no other step but a tick changes them.
C27_SmoothedLifetime ==
  [][ /\ IsRemount => FreshlyInitialised
      /\ (GeometryChanges /\ ~IsRemount) =>
           /\ simState' = simState
           /\ \A i \in DOMAIN temperatures' : temperatures'[i] = params'.tempFluidInitial
      /\ (~IsRemount /\ ~IsTick) => simState' = simState
    ]_vars

\* The arrays have just been re-created after at least one tick, and the smoothed
\* surface temperature, still on its way, is not the configured one: the step was a
\* change of geometry alone.
C27_GeometryEditKeepsLag ==
  /\ frame.kind = "created"
  /\ ticks > 0
  /\ isFinite(simState.tempSurface) /\ isFinite(params.tempSurface)
  /\ simState.tempSurface # params.tempSurface
  /\ \A i \in Particles : temperatures[i] = params.tempFluidInitial

\* A Reset after at least one tick: the smoothed parameters are those of the default
\* configuration.
C27_ResetInitialises ==
  /\ frame.kind = "created"
  /\ ticks > 0
  /\ timers > 0
  /\ simState = NewSimState(DEFAULT_PARAMS)

(***************************************************************************)
(* Reset, load and the restart timer                                       *)
(***************************************************************************)
\* The step is an accepted load; a rejected or ignored one; a timer coming due.
IsAcceptedLoad == load'.serial = load.serial + 1 /\ load'.kind = "accepted"
IsRefusedLoad == load'.serial = load.serial + 1 /\ load'.kind # "accepted"
IsTimer == timers' = timers - 1

\* What the claim says of one step.
RestartRules ==
  /\ (IsReset \/ IsAcceptedLoad) => (isPlaying' = FALSE /\ timers' = timers + 1)
  /\ IsRefusedLoad => (timers' = timers /\ isPlaying' = isPlaying)
  /\ timers' < timers => (IsTimer /\ isPlaying' = TRUE)

\* C26: Reset and every accepted load pause the simulation and schedule a timer, a
\* refused load schedules none, a pending timer goes away only by firing, which sets
\* isPlaying whatever it was, and every pending timer eventually fires.
C26_RestartTimer ==
  /\ [][RestartRules]_vars
  /\ (timers > 0) ~> (timers = 0)

\* The user paused, then loaded a file that was accepted; the timer has fired and the
\* simulation plays.
C26_PauseOverridden ==
  /\ load.kind = "accepted"
  /\ load.isPlaying = FALSE
  /\ timers = 0
  /\ isPlaying

\* A refused load with no timer pending.
C26_RefusedLoad == load.kind \in { "invalid", "failed", "ignored" } /\ timers = 0

====
